---- MODULE Spec2Model ----
(***************************************************************************)
(* Theseus: gap-affine wavefront alignment of a sequence to a sequence     *)
(* graph, and the partial-order (POA) graph update of the MSA mode.        *)
(* The aligner is modelled from src/theseus/theseus_aligner_impl.cpp, its  *)
(* data structures from scope.h, scratchpad.h, vertices_data.h, and the    *)
(* graph update from msa.h.  Vertex ids, wavefront positions and POA ids   *)
(* are 0-based as in the code; a TLA+ sequence stores element k at k + 1.  *)
(***************************************************************************)
EXTENDS Integers, Sequences, FiniteSets, TLC

\* ------------------------------------------------------------- bounds
MaxLen == 2
MaxAligns == 3
MaxScore == 9

Alphabet == {"A", "C"}

SeqsUpTo(n) == UNION {[1..k -> Alphabet] : k \in 0..n}

Min(x, y) == IF x < y THEN x ELSE y

Max(x, y) == IF x > y THEN x ELSE y

At(s, k) == s[k + 1]

\* ------------------------------------------------------------- cells
Cell(pp, v, o, d, fm, op) ==
  [prev_pos |-> pp, vertex_id |-> v, offset |-> o, diag |-> d,
   from_matrix |-> fm, edit_op |-> op]

Matrix == {"None", "M", "MJumps", "I", "IJumps", "D", "I2", "I2Jumps", "D2"}

edit_t == {"None", "M", "Ins", "Del"}

\* a Cell whose prev_pos, from_matrix and edit_op were never assigned holds
\* whatever the stack held: one of these
UninitCell ==
  { Cell(-1, 0, 0, 0, "MJumps", "None"),
    Cell(0, 0, 0, 0, "None", "Ins") }

\* ------------------------------------------------------------- graph
Edge(f, t) == [from_vertex |-> f, to_vertex |-> t, overlap |-> 0]

Vertex(ie, oe, val, fp) ==
  [in_edges |-> ie, out_edges |-> oe, value |-> val, first_poa_vtx |-> fp]

\* the graph of TheseusAligner(penalties, seq): source -> central -> sink
InitialMsaGraph(s) ==
  << Vertex(<<>>, <<Edge(0, 1)>>, <<>>, 0),
     Vertex(<<Edge(0, 1)>>, <<Edge(1, 2)>>, s, 1),
     Vertex(<<Edge(1, 2)>>, <<>>, <<>>, Len(s) + 1) >>

\* graphs handed to TheseusAligner(penalties, gfa_graph): a fork that joins
\* again, and a cycle
AnchoredGraphs ==
  { << Vertex(<<>>, <<Edge(0, 1), Edge(0, 2)>>, <<"A">>, 0),
       Vertex(<<Edge(0, 1)>>, <<Edge(1, 2)>>, <<"C">>, 0),
       Vertex(<<Edge(0, 2), Edge(1, 2)>>, <<>>, <<"A", "C">>, 0) >>,
    << Vertex(<<Edge(1, 0)>>, <<Edge(0, 1)>>, <<"A">>, 0),
       Vertex(<<Edge(0, 1)>>, <<Edge(1, 0)>>, <<"C", "A">>, 0) >> }

PenaltySet == { [match |-> 0, mism |-> 1, gapo |-> 1, gape |-> 1] }

\* a penalty set in which nothing costs, and a graph of one vertex
FreeGapPenaltySet == { [match |-> 0, mism |-> 0, gapo |-> 0, gape |-> 0] }

SingleVertexGraphs == { << Vertex(<<>>, <<>>, <<"A">>, 0) >> }

\* graphs with labels of length zero: two empty vertices in a cycle, a cycle
\* through an empty vertex with a way out, three empty vertices in a row, and
\* an empty vertex between two labelled ones
EmptyLabelGraphs ==
  { << Vertex(<<Edge(1, 0)>>, <<Edge(0, 1)>>, <<>>, 0),
       Vertex(<<Edge(0, 1)>>, <<Edge(1, 0)>>, <<>>, 0) >>,
    << Vertex(<<Edge(1, 0)>>, <<Edge(0, 1)>>, <<"A">>, 0),
       Vertex(<<Edge(0, 1)>>, <<Edge(1, 0), Edge(1, 2)>>, <<>>, 0),
       Vertex(<<Edge(1, 2)>>, <<>>, <<"C">>, 0) >>,
    << Vertex(<<>>, <<Edge(0, 1), Edge(0, 2)>>, <<>>, 0),
       Vertex(<<Edge(0, 1)>>, <<Edge(1, 2)>>, <<>>, 0),
       Vertex(<<Edge(0, 2), Edge(1, 2)>>, <<Edge(2, 1)>>, <<>>, 0) >>,
    << Vertex(<<>>, <<Edge(0, 1)>>, <<"A">>, 0),
       Vertex(<<Edge(0, 1)>>, <<Edge(1, 2)>>, <<>>, 0),
       Vertex(<<Edge(1, 2)>>, <<>>, <<"A", "A">>, 0) >> }

\* a graph whose edges carry an overlap, as a GFA link with 1M gives: a cycle
\* of two vertices whose labels share one character at each junction
OverlapGraphs ==
  { << Vertex(<<[from_vertex |-> 1, to_vertex |-> 0, overlap |-> 1]>>,
              <<[from_vertex |-> 0, to_vertex |-> 1, overlap |-> 1]>>,
              <<"A", "C">>, 0),
       Vertex(<<[from_vertex |-> 0, to_vertex |-> 1, overlap |-> 1]>>,
              <<[from_vertex |-> 1, to_vertex |-> 0, overlap |-> 1]>>,
              <<"C", "A">>, 0) >> }

\* ------------------------------------------------------------- penalties
MaxPenalty == 2

PenaltyValues == -1..MaxPenalty

\* Penalties(match, mismatch, gape)
Penalties_linear(match, mismatch, gape) ==
  [type |-> "Linear", match |-> match, mism |-> mismatch, gapo |-> 0, gape |-> gape]

\* Penalties(match, mismatch, gapo, gape)
Penalties_affine(match, mismatch, gapo, gape) ==
  [type |-> "Affine", match |-> match, mism |-> mismatch, gapo |-> gapo, gape |-> gape]

NotConstructed == [type |-> "none"]

NotScored == [edit_op |-> <<>>, score |-> 0, done |-> FALSE]

invalid_argument == [type |-> "invalid_argument"]

\* the transform with the extension penalty doubled and not shifted
eizenga_transform_keeping_match(penalties) ==
  IF penalties.match # 0
  THEN [type |-> "Internal", match |-> 0,
        mism |-> 2 * penalties.mism - 2 * penalties.match,
        gapo |-> 2 * penalties.gapo,
        gape |-> 2 * penalties.gape]
  ELSE [type |-> "Internal", match |-> penalties.match, mism |-> penalties.mism,
        gapo |-> penalties.gapo, gape |-> penalties.gape]

eizenga_transform(penalties) ==
  IF penalties.match # 0
  THEN [type |-> "Internal", match |-> 0,
        mism |-> 2 * penalties.mism - 2 * penalties.match,
        gapo |-> 2 * penalties.gapo,
        gape |-> 2 * penalties.gape - penalties.match]
  ELSE [type |-> "Internal", match |-> penalties.match, mism |-> penalties.mism,
        gapo |-> penalties.gapo, gape |-> penalties.gape]

\* the constructor without its last test
InternalPenalties_without_gap_test(penalties) ==
  IF penalties.match > penalties.mism THEN invalid_argument
  ELSE IF penalties.match > penalties.gapo THEN invalid_argument
  ELSE IF penalties.match > penalties.gape THEN invalid_argument
  ELSE eizenga_transform(penalties)

InternalPenalties(penalties) ==
  IF penalties.match > penalties.mism THEN invalid_argument
  ELSE IF penalties.match > penalties.gapo THEN invalid_argument
  ELSE IF penalties.match > penalties.gape THEN invalid_argument
  ELSE IF penalties.gapo < penalties.gape THEN invalid_argument
  ELSE eizenga_transform(penalties)

\* ------------------------------------------------------------- POA graph
POAVertex(assoc, ie, oe, val, comp) ==
  [associated_vtxs |-> assoc, in_edges |-> ie, out_edges |-> oe,
   value |-> val, associated_vtx_compact |-> comp]

POAEdge(ids, s, d, w) ==
  [sequence_IDs |-> ids, source |-> s, destination |-> d, weight |-> w]

create_initial_graph(G) ==
  LET val == At(G, 1).value
      n == Len(val)
  IN [poa_vertices |->
        <<POAVertex(<<>>, <<>>, <<0>>, "", 0)>>
        \o [l \in 1..n |-> POAVertex(<<>>, <<l - 1>>, <<l>>, val[l], 1)]
        \o <<POAVertex(<<>>, <<n>>, <<>>, "", 2)>>,
      poa_edges |-> [l \in 1..(n + 1) |-> POAEdge(<<0>>, l - 1, l, 1)] \o <<>>]

NoPoaGraph == [poa_vertices |-> <<>>, poa_edges |-> <<>>]

\* ------------------------------------------------------------- scope
\* a ring with one slot fewer
n_scores_without_spare(pen) == Max(pen.gapo + pen.gape, pen.mism)

n_scores(pen) == Max(pen.gapo + pen.gape, pen.mism) + 1

EmptySlot ==
  [i_wf |-> <<>>, d_wf |-> <<>>, i_jumps_wf |-> <<>>,
   m_pos |-> <<>>, i_pos |-> <<>>, d_pos |-> <<>>]

Scope(n) == [k \in 1..n |-> EmptySlot] \o <<>>

\* a range that always starts at the first cell of the wavefront
Range_from_zero(s, e) == [start |-> 0, end |-> e]

Range(s, e) == [start |-> s, end |-> e]

\* ------------------------------------------------------------- scratchpad
ScratchDefault == Cell(-1, -1, -1, -1, "None", "None")

ScratchPad(min_d, max_d) ==
  [min_diag |-> min_d, max_diag |-> max_d, wf |-> <<>>, active_diags |-> <<>>]

VARIABLES
  penalties,        \* user penalties handed to the constructor
  graph,            \* _graph._vertices, the compact graph
  poa_graph,        \* _poa_graph: _poa_vertices and _poa_edges
  is_msa,           \* _is_msa
  seq_ID,           \* _seq_ID
  seq,              \* _seq
  score,            \* _score
  end,              \* _end
  start_pos,        \* _start_pos
  m_wf,             \* _beyond_scope->m_wf()
  m_jumps_wf,       \* _beyond_scope->m_jumps_wf()
  scope,            \* _scope: ring of n_scores slots
  active_vertices,  \* _vertices_data->_active_vertices
  vertex_to_idx,    \* _vertices_data->_vertex_to_idx
  scratchpad,       \* _scratchpad
  alignment,        \* _alignment: score and cigar (edit_op, path)
  start_node,       \* argument of TheseusAligner::align
  start_offset,     \* argument of TheseusAligner::align
  update,           \* FALSE when the caller asks for no graph update (align_only)
  given_penalties,  \* a Penalties object built by the user
  internal_penalties, \* the InternalPenalties built from it, or what it threw
  scored,           \* the last edit_op scored with given_penalties, and its score
  chain,            \* the store_M_jump calls in progress and the cell to extend
  sweep,            \* the vertex of the sparsify sweep in progress and the cells it proposed
  wave,             \* the position inside compute_new_wave: active slot and statement
  call,             \* the arguments of the dijkstra call made last
  present,          \* the sequences the graph was built from so far
  pc                \* position of the caller: "idle", "loop", "returned"

aligner_vars ==
  << penalties, graph, poa_graph, is_msa, seq_ID, seq, score, end, start_pos,
     m_wf, m_jumps_wf, scope, active_vertices, vertex_to_idx, scratchpad,
     alignment, start_node, start_offset, update, chain, sweep, wave, call, present, pc >>

penalty_vars == << given_penalties, internal_penalties, scored >>

vars == << aligner_vars, penalty_vars >>

\* The operators below take and return the aligner's mutable members as one
\* record `a` with the fields seq, score, end, start_pos, m_wf, m_jumps_wf,
\* scope, active_vertices, vertex_to_idx, scratchpad, cigar, graph, is_msa,
\* penalties.

\* ------------------------------------------------------------- VerticesData
get_pos(a, sc) == sc % n_scores(a.penalties)

get_id(a, vtx) == At(a.vertex_to_idx, vtx)

get_vertex_id(a, idx) == At(a.active_vertices, idx).vertex_id

get_vertex_data(a, vtx) == At(a.active_vertices, get_id(a, vtx))

num_active_vertices(a) == Len(a.active_vertices)

VertexData(vtx, n) ==
  [vertex_id |-> vtx, m_invalid |-> <<>>, i_invalid |-> <<>>, d_invalid |-> <<>>,
   m_jumps_positions |-> [k \in 1..n |-> <<>>] \o <<>>,
   i_jumps_positions |-> [k \in 1..n |-> <<>>] \o <<>>]

\* activate_vertex pushing the vertex whether or not it is active
activate_vertex_always_pushing(a, vtx) ==
  LET sz == Len(a.vertex_to_idx)
      v2i == IF sz <= vtx
             THEN a.vertex_to_idx \o [k \in 1..(2 * vtx + 1 - sz) |-> -1]
             ELSE a.vertex_to_idx
  IN [a EXCEPT
        !.active_vertices = Append(@, VertexData(vtx, n_scores(a.penalties))),
        !.vertex_to_idx = [v2i EXCEPT ![vtx + 1] = Len(a.active_vertices)]]

activate_vertex(a, vtx) ==
  LET sz == Len(a.vertex_to_idx)
      v2i == IF sz <= vtx
             THEN a.vertex_to_idx \o [k \in 1..(2 * vtx + 1 - sz) |-> -1]
             ELSE a.vertex_to_idx
  IN IF At(v2i, vtx) = -1
     THEN [a EXCEPT
             !.active_vertices = Append(@, VertexData(vtx, n_scores(a.penalties))),
             !.vertex_to_idx = [v2i EXCEPT ![vtx + 1] = Len(a.active_vertices)]]
     ELSE [a EXCEPT !.vertex_to_idx = v2i]

InvalidData(s, e, up, down) ==
  [start_d |-> s, end_d |-> e, rem_up |-> up, rem_down |-> down]

invalidate_i_jump(a, idx, diag) ==
  LET go == a.penalties.gapo
      ge == a.penalties.gape
  IN [a EXCEPT
        !.active_vertices[idx + 1].m_invalid =
            Append(@, InvalidData(diag, diag, ge, go + ge)),
        !.active_vertices[idx + 1].i_invalid =
            Append(@, InvalidData(diag, diag, ge, 2 * go + 3 * ge)),
        !.active_vertices[idx + 1].d_invalid =
            Append(@, InvalidData(diag, diag - 1, go + 2 * ge, go + ge))]

\* invalidate_m_jump leaving the M matrix as it was
invalidate_m_jump_not_in_M(a, idx, diag) ==
  LET go == a.penalties.gapo
      ge == a.penalties.gape
  IN [a EXCEPT
        !.active_vertices[idx + 1].i_invalid =
            Append(@, InvalidData(diag + 1, diag, go + ge, 2 * (go + ge))),
        !.active_vertices[idx + 1].d_invalid =
            Append(@, InvalidData(diag, diag - 1, 2 * (go + ge), go + ge))]

invalidate_m_jump(a, idx, diag) ==
  LET go == a.penalties.gapo
      ge == a.penalties.gape
  IN [a EXCEPT
        !.active_vertices[idx + 1].m_invalid =
            Append(@, InvalidData(diag, diag, go + ge, go + ge)),
        !.active_vertices[idx + 1].i_invalid =
            Append(@, InvalidData(diag + 1, diag, go + ge, 2 * (go + ge))),
        !.active_vertices[idx + 1].d_invalid =
            Append(@, InvalidData(diag, diag - 1, 2 * (go + ge), go + ge))]

invalid_of(vdata, matrix) ==
  IF matrix = "M" THEN vdata.m_invalid
  ELSE IF matrix = "I" THEN vdata.i_invalid
  ELSE vdata.d_invalid

\* valid_diagonal finding every diagonal valid
valid_diagonal_always(a, matrix, vtx, diag) == TRUE

valid_diagonal(a, matrix, vtx, diag) ==
  LET invalid == invalid_of(get_vertex_data(a, vtx), matrix)
  IN \A l \in 1..Len(invalid) :
        ~(invalid[l].start_d <= diag /\ diag <= invalid[l].end_d)

\* expand_invalid_vector that grows an interval and leaves its counters at 0
expand_invalid_vector_not_rearming(invalid_v, default_rem_up, default_rem_down) ==
  [l \in 1..Len(invalid_v) |->
     LET x == invalid_v[l]
         rd == x.rem_down - 1
         ru == x.rem_up - 1
     IN [start_d |-> IF rd = 0 THEN x.start_d - 1 ELSE x.start_d,
         end_d |-> IF ru = 0 THEN x.end_d + 1 ELSE x.end_d,
         rem_up |-> ru,
         rem_down |-> rd]] \o <<>>

expand_invalid_vector(invalid_v, default_rem_up, default_rem_down) ==
  [l \in 1..Len(invalid_v) |->
     LET x == invalid_v[l]
         rd == x.rem_down - 1
         ru == x.rem_up - 1
     IN [start_d |-> IF rd = 0 THEN x.start_d - 1 ELSE x.start_d,
         end_d |-> IF ru = 0 THEN x.end_d + 1 ELSE x.end_d,
         rem_up |-> IF ru = 0 THEN default_rem_up ELSE ru,
         rem_down |-> IF rd = 0 THEN default_rem_down ELSE rd]] \o <<>>

\* std::sort on start_d; for the short vectors met here it is an insertion
\* sort, which keeps equal keys in their order
RECURSIVE sort_by_start(_)
sort_by_start(v) ==
  IF Len(v) <= 1 THEN v
  ELSE LET sorted == sort_by_start(SubSeq(v, 1, Len(v) - 1))
           x == v[Len(v)]
           n == Cardinality({k \in 1..Len(sorted) : sorted[k].start_d <= x.start_d})
       IN SubSeq(sorted, 1, n) \o <<x>> \o SubSeq(sorted, n + 1, Len(sorted))

RECURSIVE compact_loop(_, _, _, _, _)
compact_loop(v, k, l, default_rem_up, default_rem_down) ==
  IF l > Len(v) THEN SubSeq(v, 1, k)
  ELSE IF v[k].end_d + 1 >= v[l].start_d
       THEN LET e == Max(v[l].end_d, v[k].end_d)
                rd == Min(v[k].rem_down,
                          v[l].rem_down + (v[l].start_d - v[k].start_d) * default_rem_down)
                ru == IF v[l].end_d > e
                      THEN Min(v[l].rem_up, v[k].rem_up + (v[l].end_d - e) * default_rem_up)
                      ELSE Min(v[k].rem_up, v[l].rem_up + (e - v[l].end_d) * default_rem_up)
            IN compact_loop([v EXCEPT ![k] = InvalidData(v[k].start_d, e, ru, rd)],
                            k, l + 1, default_rem_up, default_rem_down)
       ELSE compact_loop([v EXCEPT ![k + 1] = v[l]],
                         k + 1, l + 1, default_rem_up, default_rem_down)

\* compact_invalid_vector that sorts the list and merges nothing
compact_invalid_vector_sorting_only(invalid_v, default_rem_up, default_rem_down) ==
  sort_by_start(invalid_v)

compact_invalid_vector(invalid_v, default_rem_up, default_rem_down) ==
  IF Len(invalid_v) = 0 THEN invalid_v
  ELSE compact_loop(sort_by_start(invalid_v), 1, 2, default_rem_up, default_rem_down)

expand(a) ==
  LET ge == a.penalties.gape
  IN [a EXCEPT !.active_vertices =
        [l \in 1..Len(@) |->
           [@[l] EXCEPT !.m_invalid = expand_invalid_vector(@, ge, ge),
                        !.i_invalid = expand_invalid_vector(@, ge, ge),
                        !.d_invalid = expand_invalid_vector(@, ge, ge)]] \o <<>>]

compact(a) ==
  LET ge == a.penalties.gape
  IN [a EXCEPT !.active_vertices =
        [l \in 1..Len(@) |->
           [@[l] EXCEPT !.m_invalid = compact_invalid_vector(@, ge, ge),
                        !.i_invalid = compact_invalid_vector(@, ge, ge),
                        !.d_invalid = compact_invalid_vector(@, ge, ge)]] \o <<>>]

vertices_new_score(a, sc) ==
  LET p == get_pos(a, sc) + 1
  IN [a EXCEPT !.active_vertices =
        [l \in 1..Len(@) |->
           [@[l] EXCEPT !.m_jumps_positions[p] = <<>>,
                        !.i_jumps_positions[p] = <<>>]] \o <<>>]

vertices_new_alignment(a) ==
  [a EXCEPT !.active_vertices = <<>>, !.vertex_to_idx = <<>>]

\* ------------------------------------------------------------- Scope
slot(a, sc) == a.scope[get_pos(a, sc) + 1]

scope_new_score(a, sc) == [a EXCEPT !.scope[get_pos(a, sc) + 1] = EmptySlot]

scope_new_alignment(a) == [a EXCEPT !.scope = Scope(n_scores(a.penalties))]

beyond_scope_new_alignment(a) == [a EXCEPT !.m_wf = <<>>, !.m_jumps_wf = <<>>]

\* ------------------------------------------------------------- ScratchPad
pad_cell(sp, diag) == IF diag \in DOMAIN sp.wf THEN sp.wf[diag] ELSE ScratchDefault

pad_set(sp, diag, c) ==
  [sp EXCEPT !.wf = (diag :> c) @@ sp.wf]

\* access_alloc recording the diagonal at every call
access_alloc_always_appending(sp, diag) ==
  [sp EXCEPT !.active_diags = Append(@, diag)]

access_alloc(sp, diag) ==
  IF pad_cell(sp, diag).offset = -1
  THEN [sp EXCEPT !.active_diags = Append(@, diag)]
  ELSE sp

\* reset emptying the touched list only
reset_keeping_offsets(sp) == [sp EXCEPT !.active_diags = <<>>]

reset(sp) ==
  LET touched == {sp.active_diags[k] : k \in 1..Len(sp.active_diags)}
  IN [sp EXCEPT
        !.wf = [x \in touched |-> [pad_cell(sp, x) EXCEPT !.offset = -1]]
               @@ sp.wf,
        !.active_diags = <<>>]

\* sparsify_store letting a later cell of equal offset replace the one held
sparsify_store_keeping_last(sp, new_cell, m, upper_bound) ==
  IF new_cell.offset <= m /\ new_cell.offset + new_cell.diag <= upper_bound
  THEN LET sp1 == access_alloc(sp, new_cell.diag)
       IN IF pad_cell(sp1, new_cell.diag).offset <= new_cell.offset
          THEN pad_set(sp1, new_cell.diag, new_cell)
          ELSE sp1
  ELSE sp

\* the tail shared by the three sparsify loops: bounds test, access_alloc,
\* keep the cell of larger offset
sparsify_store(sp, new_cell, m, upper_bound) ==
  IF new_cell.offset <= m /\ new_cell.offset + new_cell.diag <= upper_bound
  THEN LET sp1 == access_alloc(sp, new_cell.diag)
       IN IF pad_cell(sp1, new_cell.diag).offset < new_cell.offset
          THEN pad_set(sp1, new_cell.diag, new_cell)
          ELSE sp1
  ELSE sp

\* statement sequencing: the value of x is computed first, then f runs on it
Then(x, f(_)) == CHOOSE r \in {f(y) : y \in {x}} : TRUE

RECURSIVE sparsify_M_data(_, _, _, _, _, _, _, _, _)
sparsify_M_data(sp, dense_wf, offset_increase, shift_factor, p, range_end, m, upper_bound, edit_op) ==
  IF p >= range_end THEN sp
  ELSE LET new_cell == [At(dense_wf, p) EXCEPT
                          !.diag = @ + shift_factor,
                          !.offset = @ + offset_increase,
                          !.from_matrix = "M",
                          !.prev_pos = p,
                          !.edit_op = edit_op]
           next(sp1) == sparsify_M_data(sp1, dense_wf, offset_increase, shift_factor,
                                        p + 1, range_end, m, upper_bound, edit_op)
       IN Then(sparsify_store(sp, new_cell, m, upper_bound), next)

RECURSIVE sparsify_jumps_data(_, _, _, _, _, _, _, _, _, _)
sparsify_jumps_data(sp, dense_wf, jumps_positions, l, offset_increase, shift_factor, m, upper_bound, from_matrix, edit_op) ==
  IF l > Len(jumps_positions) THEN sp
  ELSE LET pos == jumps_positions[l]
           c0 == At(dense_wf, pos)
           c1 == IF from_matrix = "MJumps"
                 THEN [c0 EXCEPT !.prev_pos = pos, !.from_matrix = from_matrix]
                 ELSE c0
           new_cell == [c1 EXCEPT !.diag = @ + shift_factor,
                                  !.offset = @ + offset_increase,
                                  !.edit_op = edit_op]
           next(sp1) == sparsify_jumps_data(sp1, dense_wf, jumps_positions, l + 1,
                                            offset_increase, shift_factor, m,
                                            upper_bound, from_matrix, edit_op)
       IN Then(sparsify_store(sp, new_cell, m, upper_bound), next)

RECURSIVE sparsify_indel_data(_, _, _, _, _, _, _, _, _)
sparsify_indel_data(sp, dense_wf, offset_increase, shift_factor, p, range_end, m, upper_bound, edit_op) ==
  IF p >= range_end THEN sp
  ELSE LET new_cell == [At(dense_wf, p) EXCEPT
                          !.diag = @ + shift_factor,
                          !.offset = @ + offset_increase,
                          !.edit_op = edit_op]
           next(sp1) == sparsify_indel_data(sp1, dense_wf, offset_increase,
                                            shift_factor, p + 1, range_end, m,
                                            upper_bound, edit_op)
       IN Then(sparsify_store(sp, new_cell, m, upper_bound), next)

\* the densify loop of next_I / next_D / next_M: the touched diagonals, in
\* the order they were first touched, that are valid in the matrix
densify(a, sp, matrix, v) ==
  LET keep == {k \in 1..Len(sp.active_diags) :
                 valid_diagonal(a, matrix, v, sp.active_diags[k])}
      nth(i) == CHOOSE k \in keep : Cardinality({j \in keep : j < k}) = i - 1
  IN [i \in 1..Cardinality(keep) |-> pad_cell(sp, sp.active_diags[nth(i)])] \o <<>>

\* ------------------------------------------------------------- extension
end_vertex == 2

RECURSIVE LCP(_, _, _, _)
LCP(seq_1, seq_2, offset, j) ==
  IF offset < Len(seq_1) /\ j < Len(seq_2) /\ At(seq_1, offset) = At(seq_2, j)
  THEN LCP(seq_1, seq_2, offset + 1, j + 1)
  ELSE offset

\* check_end_condition without the test on the end vertex
check_end_condition_any_vertex(a, curr_data, j, v) ==
  LET j_end == Len(At(a.graph, v).value)
  IN IF ~a.is_msa /\ curr_data.offset = Len(a.seq)
     THEN [a EXCEPT !.end = TRUE, !.start_pos = curr_data]
     ELSE IF a.is_msa /\ curr_data.offset = Len(a.seq) /\ j = j_end
          THEN [a EXCEPT !.end = TRUE, !.start_pos = curr_data]
          ELSE a

check_end_condition(a, curr_data, j, v) ==
  LET j_end == Len(At(a.graph, v).value)
  IN IF ~a.is_msa /\ curr_data.offset = Len(a.seq)
     THEN [a EXCEPT !.end = TRUE, !.start_pos = curr_data]
     ELSE IF a.is_msa /\ curr_data.offset = Len(a.seq) /\ v = end_vertex /\ j = j_end
          THEN [a EXCEPT !.end = TRUE, !.start_pos = curr_data]
          ELSE a

\* extend_diagonal is always called with curr_cell and prev_cell the same
\* element, at index prev_pos, of m_wf (from_matrix M) or m_jumps_wf (MJumps)
RECURSIVE extend_diagonal(_, _, _, _)
RECURSIVE store_M_jump_loop(_, _, _, _, _)
store_M_jump_loop(a, v, new_cell, new_diag, l) ==
  LET out == At(a.graph, v).out_edges
  IN IF l > Len(out) THEN a
     ELSE LET c == [new_cell EXCEPT !.vertex_id = out[l].to_vertex,
                                    !.diag = new_diag + out[l].overlap]
              a1 == activate_vertex(a, c.vertex_id)
          IN IF valid_diagonal(a1, "M", c.vertex_id, c.diag)
             THEN LET pos_new_cell == Len(a1.m_jumps_wf)
                      a2 == [a1 EXCEPT
                               !.m_jumps_wf = Append(@, c),
                               !.active_vertices[get_id(a1, c.vertex_id) + 1]
                                  .m_jumps_positions[get_pos(a1, a1.score) + 1] =
                                      Append(@, pos_new_cell)]
                  IN store_M_jump_loop(
                       extend_diagonal(a2, c.vertex_id, pos_new_cell, "MJumps"),
                       v, new_cell, new_diag, l + 1)
             ELSE store_M_jump_loop(a1, v, new_cell, new_diag, l + 1)

\* store_M_jump leaving the from_matrix of the copied cell as it was
store_M_jump_keeping_from_matrix(a, v, prev_cell, prev_pos, from_matrix) ==
  LET a1 == invalidate_m_jump(a, get_id(a, prev_cell.vertex_id), prev_cell.diag)
      new_cell == [prev_cell EXCEPT !.prev_pos = prev_pos, !.edit_op = "M"]
  IN store_M_jump_loop(a1, v, new_cell, -prev_cell.offset, 1)

store_M_jump(a, v, prev_cell, prev_pos, from_matrix) ==
  LET a1 == invalidate_m_jump(a, get_id(a, prev_cell.vertex_id), prev_cell.diag)
      new_cell == [prev_cell EXCEPT !.from_matrix = from_matrix,
                                    !.prev_pos = prev_pos,
                                    !.edit_op = "M"]
  IN store_M_jump_loop(a1, v, new_cell, -prev_cell.offset, 1)

extend_diagonal(a, v, prev_pos, from_matrix) ==
  LET curr_cell == IF from_matrix = "M" THEN At(a.m_wf, prev_pos)
                   ELSE At(a.m_jumps_wf, prev_pos)
      val == At(a.graph, v).value
      offset == LCP(a.seq, val, curr_cell.offset, curr_cell.diag + curr_cell.offset)
      j == curr_cell.diag + offset
      extended == [curr_cell EXCEPT !.offset = offset]
      a1 == IF from_matrix = "M"
            THEN [a EXCEPT !.m_wf[prev_pos + 1] = extended]
            ELSE [a EXCEPT !.m_jumps_wf[prev_pos + 1] = extended]
      a2 == check_end_condition(a1, extended, j, v)
  IN IF j = Len(val) /\ offset <= Len(a.seq) /\ Len(At(a.graph, v).out_edges) > 0
     THEN store_M_jump(a2, v, extended, prev_pos, from_matrix)
     ELSE a2

RECURSIVE store_I_jump_loop(_, _, _, _, _)
store_I_jump_loop(a, v, new_cell, new_diag, l) ==
  LET out == At(a.graph, v).out_edges
  IN IF l > Len(out) THEN a
     ELSE LET c == [new_cell EXCEPT !.vertex_id = out[l].to_vertex,
                                    !.diag = new_diag + out[l].overlap]
              a1 == activate_vertex(a, c.vertex_id)
              s == get_pos(a1, a1.score) + 1
          IN IF valid_diagonal(a1, "I", c.vertex_id, c.diag)
             THEN store_I_jump_loop(
                    [a1 EXCEPT
                       !.scope[s].i_jumps_wf = Append(@, c),
                       !.active_vertices[get_id(a1, c.vertex_id) + 1]
                          .i_jumps_positions[s] =
                              Append(@, Len(a1.scope[s].i_jumps_wf))],
                    v, new_cell, new_diag, l + 1)
             ELSE store_I_jump_loop(a1, v, new_cell, new_diag, l + 1)

store_I_jump(a, v, prev_cell, prev_pos) ==
  store_I_jump_loop(
    invalidate_i_jump(a, get_id(a, prev_cell.vertex_id), prev_cell.diag),
    v, prev_cell, -prev_cell.offset, 1)

RECURSIVE check_and_store_jumps(_, _, _, _)
check_and_store_jumps(a, v, p, range_end) ==
  IF p >= range_end THEN a
  ELSE LET c == At(slot(a, a.score).i_wf, p)
       IN IF c.diag + c.offset = Len(At(a.graph, v).value) /\ c.offset <= Len(a.seq)
          THEN check_and_store_jumps(
                 store_I_jump(store_M_jump(a, v, c, c.prev_pos, c.from_matrix),
                              v, c, c.prev_pos),
                 v, p + 1, range_end)
          ELSE check_and_store_jumps(a, v, p + 1, range_end)

\* ------------------------------------------------------------- next wave
next_I(a, v, upper_bound) ==
  LET go == a.penalties.gapo
      ge == a.penalties.gape
      pos_prev_M == a.score - (go + ge)
      pos_prev_I == a.score - ge
      id == get_id(a, v)
      m == Len(a.seq)
      vdata == get_vertex_data(a, v)
      s == get_pos(a, a.score) + 1
      from_I(sp) ==
        IF pos_prev_I >= 0 /\ Len(slot(a, pos_prev_I).i_pos) > id
        THEN LET cells_range == At(slot(a, pos_prev_I).i_pos, id)
             IN sparsify_indel_data(sp, slot(a, pos_prev_I).i_wf, 0, 1,
                                    cells_range.start, cells_range.end,
                                    m, upper_bound, "Ins")
        ELSE sp
      from_I_jumps(sp) ==
        IF pos_prev_I >= 0
        THEN sparsify_jumps_data(sp, slot(a, pos_prev_I).i_jumps_wf,
                                 vdata.i_jumps_positions[get_pos(a, pos_prev_I) + 1],
                                 1, 0, 1, m, upper_bound, "IJumps", "Ins")
        ELSE sp
      from_M(sp) ==
        IF pos_prev_M >= 0 /\ Len(slot(a, pos_prev_M).m_pos) > id
        THEN LET cells_range == At(slot(a, pos_prev_M).m_pos, id)
             IN sparsify_M_data(sp, a.m_wf, 0, 1,
                                cells_range.start, cells_range.end,
                                m, upper_bound, "Ins")
        ELSE sp
      from_M_jumps(sp) ==
        IF pos_prev_M >= 0
        THEN sparsify_jumps_data(sp, a.m_jumps_wf,
                                 vdata.m_jumps_positions[get_pos(a, pos_prev_M) + 1],
                                 1, 0, 1, m, upper_bound, "MJumps", "Ins")
        ELSE sp
      store(sp, new_cells) ==
        LET new_range == Range(Len(a.scope[s].i_wf),
                               Len(a.scope[s].i_wf) + Len(new_cells))
            a1 == [a EXCEPT !.scratchpad = sp,
                            !.scope[s].i_wf = @ \o new_cells,
                            !.scope[s].i_pos = Append(@, new_range)]
        IN IF Len(At(a.graph, v).out_edges) > 0
           THEN check_and_store_jumps(a1, v, new_range.start, new_range.end)
           ELSE a1
      densify_and_store(sp) == store(sp, densify(a, sp, "I", v))
  IN Then(Then(Then(Then(from_I(a.scratchpad), from_I_jumps), from_M), from_M_jumps),
          densify_and_store)

next_D(a, v, upper_bound) ==
  LET go == a.penalties.gapo
      ge == a.penalties.gape
      pos_prev_M == a.score - (go + ge)
      pos_prev_D == a.score - ge
      id == get_id(a, v)
      m == Len(a.seq)
      vdata == get_vertex_data(a, v)
      s == get_pos(a, a.score) + 1
      from_D(sp) ==
        IF pos_prev_D >= 0 /\ Len(slot(a, pos_prev_D).d_pos) > id
        THEN LET cells_range == At(slot(a, pos_prev_D).d_pos, id)
             IN sparsify_indel_data(sp, slot(a, pos_prev_D).d_wf, 1, -1,
                                    cells_range.start, cells_range.end,
                                    m, upper_bound, "Del")
        ELSE sp
      from_M(sp) ==
        IF pos_prev_M >= 0 /\ Len(slot(a, pos_prev_M).m_pos) > id
        THEN LET cells_range == At(slot(a, pos_prev_M).m_pos, id)
             IN sparsify_M_data(sp, a.m_wf, 1, -1,
                                cells_range.start, cells_range.end,
                                m, upper_bound, "Del")
        ELSE sp
      from_M_jumps(sp) ==
        IF pos_prev_M >= 0
        THEN sparsify_jumps_data(sp, a.m_jumps_wf,
                                 vdata.m_jumps_positions[get_pos(a, pos_prev_M) + 1],
                                 1, 1, -1, m, upper_bound, "MJumps", "Del")
        ELSE sp
      store(sp, new_cells) ==
        LET new_range == Range(Len(a.scope[s].d_wf),
                               Len(a.scope[s].d_wf) + Len(new_cells))
        IN [a EXCEPT !.scratchpad = sp,
                     !.scope[s].d_wf = @ \o new_cells,
                     !.scope[s].d_pos = Append(@, new_range)]
      densify_and_store(sp) == store(sp, densify(a, sp, "D", v))
  IN Then(Then(Then(from_D(a.scratchpad), from_M), from_M_jumps), densify_and_store)

next_M(a, v, upper_bound) ==
  LET pos_prev_M == a.score - a.penalties.mism
      id == get_id(a, v)
      m == Len(a.seq)
      vdata == get_vertex_data(a, v)
      cur == slot(a, a.score)
      s == get_pos(a, a.score) + 1
      from_D(sp) ==
        IF Len(cur.d_pos) > id
        THEN LET cells_range == At(cur.d_pos, id)
             IN sparsify_indel_data(sp, cur.d_wf, 0, 0,
                                    cells_range.start, cells_range.end,
                                    m, upper_bound, "Del")
        ELSE sp
      from_I(sp) ==
        IF Len(cur.i_pos) > id
        THEN LET cells_range == At(cur.i_pos, id)
             IN sparsify_indel_data(sp, cur.i_wf, 0, 0,
                                    cells_range.start, cells_range.end,
                                    m, upper_bound, "Ins")
        ELSE sp
      from_M(sp) ==
        IF pos_prev_M >= 0 /\ Len(slot(a, pos_prev_M).m_pos) > id
        THEN LET cells_range == At(slot(a, pos_prev_M).m_pos, id)
             IN sparsify_M_data(sp, a.m_wf, 1, 0,
                                cells_range.start, cells_range.end,
                                m, upper_bound, "M")
        ELSE sp
      from_M_jumps(sp) ==
        IF pos_prev_M >= 0
        THEN sparsify_jumps_data(sp, a.m_jumps_wf,
                                 vdata.m_jumps_positions[get_pos(a, pos_prev_M) + 1],
                                 1, 1, 0, m, upper_bound, "MJumps", "M")
        ELSE sp
      store(sp, new_cells) ==
        LET new_range == Range(Len(a.m_wf), Len(a.m_wf) + Len(new_cells))
        IN [a EXCEPT !.scratchpad = sp,
                     !.m_wf = @ \o new_cells,
                     !.scope[s].m_pos = Append(@, new_range)]
      densify_and_store(sp) == store(sp, densify(a, sp, "M", v))
  IN Then(Then(Then(Then(from_D(a.scratchpad), from_I), from_M), from_M_jumps),
          densify_and_store)

scratchpad_reset(a) == [a EXCEPT !.scratchpad = reset(@)]

RECURSIVE extend_range(_, _, _, _)
extend_range(a, v, idx, range_end) ==
  IF idx >= range_end THEN a
  ELSE LET next(a1) == extend_range(a1, v, idx + 1, range_end)
       IN Then(extend_diagonal(a, v, idx, "M"), next)

process_vertex(a, v) ==
  LET upper_bound == Len(At(a.graph, v).value)
      insertions(b) == scratchpad_reset(next_I(b, v, upper_bound))
      deletions(b) == scratchpad_reset(next_D(b, v, upper_bound))
      matches(b) == scratchpad_reset(next_M(b, v, upper_bound))
      extend(b) ==
        LET cells_range == At(slot(b, b.score).m_pos, get_id(b, v))
        IN extend_range(b, v, cells_range.start, cells_range.end)
  IN Then(Then(Then(insertions(a), deletions), matches), extend)

RECURSIVE process_active(_, _, _)
process_active(a, l, num_active) ==
  IF l >= num_active THEN a
  ELSE LET next(a1) == process_active(a1, l + 1, num_active)
       IN Then(process_vertex(a, get_vertex_id(a, l)), next)

compute_new_wave(a) ==
  LET process(a1) == process_active(a1, 0, num_active_vertices(a1))
  IN Then(Then(expand(a), compact), process)

\* ------------------------------------------------------------- backtrace
Repeat(x, n) == [k \in 1..n |-> x] \o <<>>

Reverse(s) == [k \in 1..Len(s) |-> s[Len(s) + 1 - k]] \o <<>>

add_matches(a, start_matches, end_matches) ==
  [a EXCEPT !.cigar.edit_op = @ \o Repeat("M", end_matches - start_matches)]

add_mismatch(a) == [a EXCEPT !.cigar.edit_op = Append(@, "X")]

add_insertion(a) == [a EXCEPT !.cigar.edit_op = Append(@, "I")]

\* add_deletion pushing the symbol of add_insertion
add_deletion_as_insertion(a) == [a EXCEPT !.cigar.edit_op = Append(@, "I")]

add_deletion(a) == [a EXCEPT !.cigar.edit_op = Append(@, "D")]

RECURSIVE add_n(_, _, _)
add_n(a, n, is_insertion) ==
  IF n <= 0 THEN a
  ELSE add_n(IF is_insertion THEN add_insertion(a) ELSE add_deletion(a),
             n - 1, is_insertion)

dijkstra_data(v, dist, prev) ==
  [vertex_id |-> v, dist_from_source |-> dist, prev_vertex |-> prev]

\* dijkstra_data_compare orders by a.dist < b.dist, so top() of the
\* std::priority_queue is an entry of LARGEST distance; among equal
\* distances the entry pushed first is taken
pq_top(pq) ==
  CHOOSE t \in 1..Len(pq) :
    /\ \A k \in 1..Len(pq) : pq[k].dist_from_source <= pq[t].dist_from_source
    /\ \A k \in 1..(t - 1) : pq[k].dist_from_source < pq[t].dist_from_source

pq_pop(pq) ==
  LET t == pq_top(pq) IN SubSeq(pq, 1, t - 1) \o SubSeq(pq, t + 1, Len(pq))

\* optimal_data is a std::set keyed by vertex_id: a function on the ids in it
set_insert(opt, d) ==
  (d.vertex_id :> d) @@ opt

RECURSIVE dijkstra_edges(_, _, _, _, _, _, _)
dijkstra_edges(G, sink, offset_sink, vtx_data, l, opt, pq) ==
  LET out == At(G, vtx_data.vertex_id).out_edges
  IN IF l > Len(out) THEN [optimal_data |-> opt, priority_queue |-> pq]
     ELSE LET v == out[l].to_vertex
              added_dist == Len(At(G, vtx_data.vertex_id).value) - out[l].overlap
              new_dist == vtx_data.dist_from_source + added_dist
              new_data == dijkstra_data(v,
                            IF v = sink THEN new_dist + offset_sink ELSE new_dist,
                            vtx_data.vertex_id)
          IN IF v \notin DOMAIN opt
             THEN dijkstra_edges(G, sink, offset_sink, vtx_data, l + 1,
                                 set_insert(opt, new_data), Append(pq, new_data))
             ELSE IF new_dist < opt[v].dist_from_source
                  THEN dijkstra_edges(G, sink, offset_sink, vtx_data, l + 1,
                                      set_insert(opt, new_data), Append(pq, new_data))
                  ELSE dijkstra_edges(G, sink, offset_sink, vtx_data, l + 1, opt, pq)

RECURSIVE dijkstra_loop(_, _, _, _, _, _)
dijkstra_loop(G, sink, offset_sink, vtx_data, opt, pq) ==
  IF vtx_data.vertex_id = sink
  THEN [vtx_data |-> vtx_data, optimal_data |-> opt]
  ELSE LET r == dijkstra_edges(G, sink, offset_sink, vtx_data, 1, opt, pq)
       IN IF Len(r.priority_queue) > 0
          THEN dijkstra_loop(G, sink, offset_sink,
                             r.priority_queue[pq_top(r.priority_queue)],
                             r.optimal_data, pq_pop(r.priority_queue))
          ELSE [vtx_data |-> vtx_data, optimal_data |-> r.optimal_data]

RECURSIVE dijkstra_path(_, _, _, _)
dijkstra_path(vtx_data, opt, source, path) ==
  IF vtx_data.vertex_id = source THEN path
  ELSE LET prev == opt[vtx_data.prev_vertex]
       IN dijkstra_path(prev, opt, source, Append(path, prev.vertex_id))

\* source_data.prev_vertex is never assigned and never read
dijkstra(a, source, sink, offset_source, offset_sink) ==
  LET source_data == dijkstra_data(source, -offset_source, -1)
      r == dijkstra_loop(a.graph, sink, offset_sink, source_data,
                         set_insert(<<>>, source_data), <<>>)
      a1 == add_n(a, r.vtx_data.dist_from_source, TRUE)
  IN [a1 EXCEPT !.cigar.path =
        dijkstra_path(r.vtx_data, r.optimal_data, source, a1.cigar.path)]

\* uninit is what the local prev_cell holds when curr_cell.from_matrix is
\* neither M nor MJumps and nothing is assigned to it
one_backtrace_step(a, curr_cell, uninit) ==
  LET prev_cell == IF curr_cell.from_matrix = "M" THEN At(a.m_wf, curr_cell.prev_pos)
                   ELSE IF curr_cell.from_matrix = "MJumps"
                        THEN At(a.m_jumps_wf, curr_cell.prev_pos)
                        ELSE uninit
  IN IF curr_cell.vertex_id = prev_cell.vertex_id
     THEN IF curr_cell.diag = prev_cell.diag
          THEN IF curr_cell.offset > prev_cell.offset
               THEN add_mismatch(add_matches(a, prev_cell.offset + 1, curr_cell.offset))
               ELSE a
          ELSE IF curr_cell.diag < prev_cell.diag
               THEN LET num_indels == prev_cell.diag - curr_cell.diag
                    IN add_n(add_matches(a, prev_cell.offset + num_indels, curr_cell.offset),
                             num_indels, FALSE)
               ELSE LET num_indels == curr_cell.diag - prev_cell.diag
                    IN add_n(add_matches(a, prev_cell.offset, curr_cell.offset),
                             num_indels, TRUE)
     ELSE LET a1 == add_matches(a, prev_cell.offset, curr_cell.offset)
          IN IF curr_cell.edit_op = "Ins"
             THEN dijkstra(a1, prev_cell.vertex_id, curr_cell.vertex_id,
                           prev_cell.diag + prev_cell.offset,
                           Len(At(a.graph, curr_cell.vertex_id).value)
                             - (curr_cell.offset - prev_cell.offset))
             ELSE [a1 EXCEPT !.cigar.path = Append(@, prev_cell.vertex_id)]

prev_of(a, curr_cell, uninit) ==
  IF curr_cell.from_matrix = "M" THEN At(a.m_wf, curr_cell.prev_pos)
  ELSE IF curr_cell.from_matrix = "MJumps" THEN At(a.m_jumps_wf, curr_cell.prev_pos)
  ELSE uninit

RECURSIVE backtrace_loop(_, _, _, _)
backtrace_loop(a, curr_pos, initial_vertex, uninit) ==
  IF curr_pos.vertex_id = initial_vertex
  THEN add_n(a, curr_pos.offset, FALSE)
  ELSE backtrace_loop(one_backtrace_step(a, curr_pos, uninit),
                      prev_of(a, curr_pos, uninit), initial_vertex, uninit)

backtrace(a, initial_vertex, uninit) ==
  LET a1 == [a EXCEPT !.cigar.path = Append(@, a.start_pos.vertex_id)]
      a2 == backtrace_loop(a1, a.start_pos, initial_vertex, uninit)
  IN [a2 EXCEPT !.cigar.edit_op = Reverse(@), !.cigar.path = Reverse(@)]

\* ------------------------------------------------------------- POA update
\* The operators below take and return the pair of graphs as one record `g`
\* with the fields G (compacted_G._vertices), pv (_poa_vertices) and
\* pe (_poa_edges).

RECURSIVE update_compact_out_edges(_, _, _, _)
update_compact_out_edges(G, orig_from, new_from, l) ==
  IF l > Len(At(G, new_from).out_edges) THEN G
  ELSE LET G1 == [G EXCEPT ![new_from + 1].out_edges[l].from_vertex = new_from]
           to_vtx == At(G1, new_from).out_edges[l].to_vertex
           G2 == [G1 EXCEPT ![to_vtx + 1].in_edges =
                    [k \in 1..Len(@) |->
                       IF @[k].from_vertex = orig_from
                       THEN [@[k] EXCEPT !.from_vertex = new_from]
                       ELSE @[k]] \o <<>>]
       IN update_compact_out_edges(G2, orig_from, new_from, l + 1)

\* one split of split_vertices: the labels of v_compact from position first_l
\* on move to a new vertex appended to the graph; poa_base is the POA id of
\* the vertex's first label
split_part(g, v_compact, first_l, new_first_poa, poa_base) ==
  LET old == At(g.G, v_compact)
      new_id == Len(g.G)
      new_edge == Edge(v_compact, new_id)
      size == Len(old.value)
      new_vertex_compacted ==
        [old EXCEPT !.in_edges = <<new_edge>>,
                    !.first_poa_vtx = new_first_poa,
                    !.value = SubSeq(old.value, first_l + 1, size)]
      pv1 == [p \in 1..Len(g.pv) |->
                IF (p - 1) - poa_base \in first_l..(size - 1)
                THEN [g.pv[p] EXCEPT !.associated_vtx_compact = new_id]
                ELSE g.pv[p]] \o <<>>
      G1 == update_compact_out_edges(Append(g.G, new_vertex_compacted),
                                     v_compact, new_id, 1)
      G2 == [G1 EXCEPT ![v_compact + 1].out_edges = <<new_edge>>,
                       ![v_compact + 1].value = SubSeq(@, 1, Min(first_l, size))]
  IN [g EXCEPT !.G = G2, !.pv = pv1]

split_vertices(g, poa_source, poa_destination) ==
  LET source_v_compact == At(g.pv, poa_source).associated_vtx_compact
      dest0 == At(g.pv, poa_destination).associated_vtx_compact
      pos_source == poa_source - At(g.G, source_v_compact).first_poa_vtx
      split_source == pos_source < Len(At(g.G, source_v_compact).value) - 1
      pos_dest0 == poa_destination - At(g.G, dest0).first_poa_vtx
      split_destination == pos_dest0 > 0
      moved == split_source /\ source_v_compact = dest0
      split_at_source(h) ==
        IF split_source
        THEN split_part(h, source_v_compact, pos_source + 1,
                        poa_source + 1, poa_source - pos_source)
        ELSE h
      connect(g2, dest1) ==
        LET destination_v_compact == IF split_destination THEN Len(g2.G) - 1 ELSE dest1
            new_edge == Edge(source_v_compact, destination_v_compact)
            G1 == [g2.G EXCEPT ![source_v_compact + 1].out_edges = Append(@, new_edge)]
        IN [g2 EXCEPT !.G =
              [G1 EXCEPT ![destination_v_compact + 1].in_edges = Append(@, new_edge)]]
      split_at_destination(g1) ==
        LET dest1 == IF moved THEN Len(g1.G) - 1 ELSE dest0
            pos_dest1 == IF moved
                         THEN poa_destination - At(g1.G, dest1).first_poa_vtx
                         ELSE pos_dest0
        IN connect(IF split_destination
                   THEN split_part(g1, dest1, pos_dest1, poa_destination,
                                   poa_destination - pos_dest1)
                   ELSE g1,
                   dest1)
  IN IF source_v_compact = dest0 /\ poa_source + 1 = poa_destination THEN g
     ELSE split_at_destination(split_at_source(g))

\* the search loop of update_poa_vertex; poa_v is a reference, so after a hit
\* the loop goes on over the associated vertices of the vertex found
RECURSIVE find_associated(_, _, _, _, _, _)
find_associated(pv, poa_v, l, value, already_exists, new_vertex_exists) ==
  IF l >= Len(At(pv, poa_v).associated_vtxs)
  THEN [poa_v |-> poa_v, already_exists |-> already_exists,
        new_vertex_exists |-> new_vertex_exists]
  ELSE LET vtx == At(At(pv, poa_v).associated_vtxs, l)
       IN IF value = At(pv, vtx).value
          THEN find_associated(pv, vtx, l + 1, value, TRUE, FALSE)
          ELSE find_associated(pv, poa_v, l + 1, value, already_exists, new_vertex_exists)

\* returns g extended with the fields the reference parameters end with
update_poa_vertex(g, poa_v, pos_new_vtx, value, new_vertex_exists) ==
  LET f == find_associated(g.pv, poa_v, 0, value, FALSE, new_vertex_exists)
  IN IF f.already_exists
     THEN [g |-> g, poa_v |-> f.poa_v, pos_new_vtx |-> pos_new_vtx,
           new_vertex_exists |-> f.new_vertex_exists]
     ELSE LET assoc == Append(At(g.pv, poa_v).associated_vtxs, poa_v)
              new_poa_v == Len(g.pv)
              comp == IF new_vertex_exists THEN pos_new_vtx ELSE Len(g.G)
              members == {assoc[k] : k \in 1..Len(assoc)}
              pv1 == Append(g.pv, POAVertex(assoc, <<>>, <<>>, value, comp))
              pv2 == [p \in 1..Len(pv1) |->
                        IF (p - 1) \in members
                        THEN [pv1[p] EXCEPT !.associated_vtxs =
                                @ \o Repeat(new_poa_v,
                                            Cardinality({k \in 1..Len(assoc) : assoc[k] = p - 1}))]
                        ELSE pv1[p]] \o <<>>
              G1 == IF new_vertex_exists
                    THEN [g.G EXCEPT ![pos_new_vtx + 1].value = Append(@, value)]
                    ELSE Append(g.G, Vertex(<<>>, <<>>, <<value>>, new_poa_v))
          IN [g |-> [g EXCEPT !.G = G1, !.pv = pv2], poa_v |-> new_poa_v,
              pos_new_vtx |-> comp, new_vertex_exists |-> TRUE]

update_poa_edge(g, source, destination, added_weight, id) ==
  LET out == At(g.pv, source).out_edges
      hits == {out[l] : l \in {k \in 1..Len(out) :
                 /\ At(g.pe, out[k]).source = source
                 /\ At(g.pe, out[k]).destination = destination}}
      times(e) == Cardinality({k \in 1..Len(out) : out[k] = e})
  IN IF hits # {}
     THEN [g EXCEPT !.pe =
             [e \in 1..Len(g.pe) |->
                IF (e - 1) \in hits
                THEN [g.pe[e] EXCEPT
                        !.sequence_IDs = @ \o Repeat(id, times(e - 1)),
                        !.weight = @ + added_weight * times(e - 1)]
                ELSE g.pe[e]] \o <<>>]
     ELSE LET n == Len(g.pe)
              pv1 == [g.pv EXCEPT ![source + 1].out_edges = Append(@, n)]
              pv2 == [pv1 EXCEPT ![destination + 1].in_edges = Append(@, n)]
          IN split_vertices(
               [g EXCEPT !.pv = pv2,
                         !.pe = Append(@, POAEdge(<<id>>, source, destination, added_weight))],
               source, destination)

RECURSIVE convert_vertices(_, _, _)
convert_vertices(G, path, l) ==
  IF l > Len(path) THEN <<>>
  ELSE [k \in 1..Len(At(G, path[l]).value) |-> At(G, path[l]).first_poa_vtx + k - 1]
       \o convert_vertices(G, path, l + 1)

convert_path(G, path) ==
  <<At(G, path[1]).first_poa_vtx>>
  \o convert_vertices(G, path, 1)
  \o <<At(G, path[Len(path)]).first_poa_vtx>>

\* the while loop of add_alignment_poa; w carries g and the locals i, l,
\* new_v_poa, new_vertex_exists, pos_new_vertex
RECURSIVE add_alignment_loop(_, _, _, _, _, _)
add_alignment_loop(w, edit_op, poa_path, new_seq, id, k) ==
  IF k > Len(edit_op) THEN w
  ELSE IF edit_op[k] = "M"
  THEN add_alignment_loop(
         [w EXCEPT !.g = update_poa_edge(w.g, w.new_v_poa, At(poa_path, w.l + 1), 1, id),
                   !.new_v_poa = At(poa_path, w.l + 1),
                   !.i = @ + 1, !.l = @ + 1, !.new_vertex_exists = FALSE],
         edit_op, poa_path, new_seq, id, k + 1)
  ELSE IF edit_op[k] = "X"
  THEN LET r == update_poa_vertex(w.g, At(poa_path, w.l + 1), w.pos_new_vertex,
                                  At(new_seq, w.i), w.new_vertex_exists)
       IN add_alignment_loop(
            [w EXCEPT !.g = update_poa_edge(r.g, w.new_v_poa, r.poa_v, 1, id),
                      !.new_v_poa = r.poa_v,
                      !.pos_new_vertex = r.pos_new_vtx,
                      !.new_vertex_exists = r.new_vertex_exists,
                      !.i = @ + 1, !.l = @ + 1],
            edit_op, poa_path, new_seq, id, k + 1)
  ELSE IF edit_op[k] = "D"
  THEN LET value == At(new_seq, w.i)
           new_poa == Len(w.g.pv)
           comp == IF w.new_vertex_exists THEN w.pos_new_vertex ELSE Len(w.g.G)
           G1 == IF w.new_vertex_exists
                 THEN [w.g.G EXCEPT ![w.pos_new_vertex + 1].value = Append(@, value)]
                 ELSE Append(w.g.G, Vertex(<<>>, <<>>, <<value>>, new_poa))
           g1 == [w.g EXCEPT !.G = G1,
                             !.pv = Append(@, POAVertex(<<>>, <<>>, <<>>, value, comp))]
       IN add_alignment_loop(
            [w EXCEPT !.g = update_poa_edge(g1, w.new_v_poa, new_poa, 1, id),
                      !.new_v_poa = new_poa,
                      !.pos_new_vertex = comp,
                      !.new_vertex_exists = TRUE,
                      !.i = @ + 1],
            edit_op, poa_path, new_seq, id, k + 1)
  ELSE add_alignment_loop([w EXCEPT !.l = @ + 1], edit_op, poa_path, new_seq, id, k + 1)

\* pos_new_vertex is not initialised; it is read only once new_vertex_exists
add_alignment_poa(g, cigar, new_seq, id) ==
  LET poa_path == convert_path(g.G, cigar.path)
      last_edge(w) == update_poa_edge(w.g, w.new_v_poa, poa_path[Len(poa_path)], 1, id)
  IN last_edge(add_alignment_loop(
                 [g |-> g, i |-> 0, l |-> 0, new_v_poa |-> 0,
                  new_vertex_exists |-> FALSE, pos_new_vertex |-> -1],
                 cigar.edit_op, poa_path, new_seq, id, 1))

\* ------------------------------------------------------------- align
MaxOf(S) == CHOOSE x \in S : \A y \in S : y <= x

\* new_alignment replacing the scratchpad only when both of its ends are short
new_alignment_replacing_when_both_small(a, start_vtx, uninit) ==
  LET max_diag == MaxOf({0} \cup {Len(a.graph[l].value) : l \in 1..Len(a.graph)})
      min_diag == -Len(a.seq)
      a1 == IF a.scratchpad.max_diag < max_diag /\ a.scratchpad.min_diag > min_diag
            THEN [a EXCEPT !.scratchpad = ScratchPad(min_diag, max_diag)]
            ELSE a
      a2 == scope_new_score(a1, a1.score)
      init_condition == [uninit EXCEPT !.offset = 0, !.vertex_id = 0, !.diag = 0]
      a3 == activate_vertex([a2 EXCEPT !.m_jumps_wf = Append(@, init_condition)],
                            start_vtx)
  IN [a3 EXCEPT
        !.active_vertices[get_id(a3, start_vtx) + 1].m_jumps_positions[1] = Append(@, 0),
        !.cigar = [edit_op |-> <<>>, path |-> <<>>]]

new_alignment(a, start_vtx, uninit) ==
  LET max_diag == MaxOf({0} \cup {Len(a.graph[l].value) : l \in 1..Len(a.graph)})
      min_diag == -Len(a.seq)
      a1 == IF a.scratchpad.max_diag < max_diag \/ a.scratchpad.min_diag > min_diag
            THEN [a EXCEPT !.scratchpad = ScratchPad(min_diag, max_diag)]
            ELSE a
      a2 == scope_new_score(a1, a1.score)
      init_condition == [uninit EXCEPT !.offset = 0, !.vertex_id = 0, !.diag = 0]
      a3 == activate_vertex([a2 EXCEPT !.m_jumps_wf = Append(@, init_condition)],
                            start_vtx)
  IN [a3 EXCEPT
        !.active_vertices[get_id(a3, start_vtx) + 1].m_jumps_positions[1] = Append(@, 0),
        !.cigar = [edit_op |-> <<>>, path |-> <<>>]]

\* align(seq) entering the loop with the score the last call left
align_begin_keeping_score(a, new_seq, uninit) ==
  LET a1 == vertices_new_alignment(beyond_scope_new_alignment(scope_new_alignment(a)))
      a2 == new_alignment([a1 EXCEPT !.seq = new_seq], 0, uninit)
  IN [a2 EXCEPT !.end = FALSE]

\* align(seq) up to the while loop
align_begin(a, new_seq, uninit) ==
  LET a1 == vertices_new_alignment(beyond_scope_new_alignment(scope_new_alignment(a)))
      a2 == new_alignment([a1 EXCEPT !.seq = new_seq], 0, uninit)
  IN [a2 EXCEPT !.score = 0, !.end = FALSE]

\* one iteration of the while (!_end) loop
align_iteration(a) ==
  LET a1 == IF a.score = 0 THEN extend_diagonal(a, 0, 0, "MJumps") ELSE a
      new_score(a3) == vertices_new_score(scope_new_score(a3, a3.score), a3.score)
  IN new_score([compute_new_wave(a1) EXCEPT !.score = @ + 1])

Self ==
  [seq |-> seq, score |-> score, end |-> end, start_pos |-> start_pos,
   m_wf |-> m_wf, m_jumps_wf |-> m_jumps_wf, scope |-> scope,
   active_vertices |-> active_vertices, vertex_to_idx |-> vertex_to_idx,
   scratchpad |-> scratchpad, cigar |-> alignment.cigar, graph |-> graph,
   is_msa |-> is_msa, penalties |-> penalties]

Assign(a) ==
  /\ seq' = a.seq
  /\ score' = a.score
  /\ end' = a.end
  /\ start_pos' = a.start_pos
  /\ m_wf' = a.m_wf
  /\ m_jumps_wf' = a.m_jumps_wf
  /\ scope' = a.scope
  /\ active_vertices' = a.active_vertices
  /\ vertex_to_idx' = a.vertex_to_idx
  /\ scratchpad' = a.scratchpad

NoCell == Cell(-1, -1, -1, -1, "None", "None")

NoChain == [stack |-> <<>>, extend |-> <<>>, jumps |-> 0, steps |-> 0]

NoSweep == [v |-> 0, cands |-> <<>>, proposed |-> 0]

NoWave == [l |-> 0, k |-> 0, num_active_vertices |-> 0]

NoCall == [source |-> 0, sink |-> 0, offset_source |-> 0, offset_sink |-> 0]

\* the aligner after construction from one of the penalty sets P and either,
\* for MSA, one of the initial sequences S or one of the graphs AG, with the
\* scratchpad pad
InitWith(P, S, AG, pad) ==
  /\ penalties \in P
  /\ is_msa \in BOOLEAN
  /\ graph \in IF is_msa
               THEN {InitialMsaGraph(s) : s \in S}
               ELSE AG
  /\ poa_graph = IF is_msa THEN create_initial_graph(graph) ELSE NoPoaGraph
  /\ seq_ID = 0
  /\ seq = <<>>
  /\ score = 0
  /\ end = FALSE
  /\ start_pos = NoCell
  /\ m_wf = <<>>
  /\ m_jumps_wf = <<>>
  /\ scope = Scope(n_scores(penalties))
  /\ active_vertices = <<>>
  /\ vertex_to_idx = <<>>
  /\ scratchpad = pad
  /\ alignment = [score |-> 0, cigar |-> [edit_op |-> <<>>, path |-> <<>>]]
  /\ start_node = 0
  /\ start_offset = 0
  /\ update = FALSE
  /\ chain = NoChain
  /\ sweep = NoSweep
  /\ wave = NoWave
  /\ call = NoCall
  /\ given_penalties = NotConstructed
  /\ internal_penalties = NotConstructed
  /\ scored = NotScored
  /\ present = IF is_msa THEN {At(graph, 1).value} ELSE {}
  /\ pc = "idle"

\* the constructor builds the scratchpad of diagonals -1024 .. 1024
InitFrom(P, S, AG) == InitWith(P, S, AG, ScratchPad(-1024, 1024))

Init == InitFrom(PenaltySet, SeqsUpTo(MaxLen) \ {<<>>}, AnchoredGraphs)

\* TheseusAligner::align(seq, start_node, start_offset), TheseusMSA::align(seq)
\* or TheseusMSA::align_only(seq) is called; the aligner runs align(seq) up to
\* its loop.  An aligner without MSA serves one call, an MSA aligner MaxAligns
\* calls.
AlignBegin ==
  /\ \/ pc = "idle"
     \/ pc = "returned" /\ is_msa /\ seq_ID < MaxAligns
  /\ \E new_seq \in SeqsUpTo(MaxLen), uninit \in UninitCell :
       \E node \in IF is_msa THEN {0} ELSE 0..(Len(graph) - 1) :
         \E offset \in IF is_msa THEN {0} ELSE 0..Len(At(graph, node).value) :
           \E upd \in IF is_msa THEN BOOLEAN ELSE {FALSE} :
             LET a == align_begin(Self, new_seq, uninit)
             IN /\ Assign(a)
                /\ alignment' = [alignment EXCEPT !.cigar = a.cigar]
                /\ start_node' = node
                /\ start_offset' = offset
                /\ update' = upd
  /\ pc' = "loop"
  /\ UNCHANGED <<penalties, sweep, wave, call, graph, poa_graph, is_msa, seq_ID, chain, present,
                 penalty_vars>>

AlignLoop ==
  /\ pc = "loop"
  /\ ~end
  /\ score < MaxScore
  /\ Assign(align_iteration(Self))
  /\ UNCHANGED <<penalties, sweep, wave, call, graph, poa_graph, is_msa, seq_ID, alignment,
                 start_node, start_offset, update, chain, present, pc, penalty_vars>>

\* the loop has ended: the score is stored and, in MSA mode, the alignment is
\* backtraced and added to the graphs
AlignReturn ==
  /\ pc = "loop"
  /\ end
  /\ \E uninit \in UninitCell :
       \E a2 \in {IF is_msa
                  THEN backtrace([Self EXCEPT !.score = @ - 1], 0, uninit)
                  ELSE [Self EXCEPT !.score = @ - 1]} :
         \E g \in {IF is_msa
                   THEN add_alignment_poa(
                          [G |-> graph, pv |-> poa_graph.poa_vertices,
                           pe |-> poa_graph.poa_edges],
                          a2.cigar, seq, seq_ID + 1)
                   ELSE [G |-> graph, pv |-> poa_graph.poa_vertices,
                         pe |-> poa_graph.poa_edges]} :
           /\ Assign(a2)
           /\ alignment' = [score |-> a2.score, cigar |-> a2.cigar]
           /\ graph' = g.G
           /\ poa_graph' = [poa_vertices |-> g.pv, poa_edges |-> g.pe]
  /\ seq_ID' = IF is_msa THEN seq_ID + 1 ELSE seq_ID
  /\ present' = IF is_msa /\ update THEN present \cup {seq} ELSE present
  /\ pc' = "returned"
  /\ UNCHANGED <<penalties, sweep, wave, call, is_msa, start_node, start_offset, update, chain,
                 penalty_vars>>

Next == AlignBegin \/ AlignLoop \/ AlignReturn

Spec == Init /\ [][Next]_vars

\* the aligner built with penalties under which nothing costs
FreeGapInit == InitFrom(FreeGapPenaltySet, {<<"A", "A">>}, SingleVertexGraphs)

FreeGapSpec == FreeGapInit /\ [][Next]_vars

\* ------------------------------------------------------------- score of a CIGAR
RECURSIVE affine_gap_loop(_, _, _, _, _, _)
affine_gap_loop(edit_op, pen, k, sc, insertion_open, deletion_open) ==
  IF k > Len(edit_op) THEN sc
  ELSE IF edit_op[k] = "X"
  THEN affine_gap_loop(edit_op, pen, k + 1, sc + pen.mism, FALSE, FALSE)
  ELSE IF edit_op[k] = "I"
  THEN affine_gap_loop(edit_op, pen, k + 1,
                       IF ~insertion_open THEN sc + pen.gapo + pen.gape
                       ELSE sc + pen.gape,
                       TRUE, FALSE)
  ELSE IF edit_op[k] = "D"
  THEN affine_gap_loop(edit_op, pen, k + 1,
                       IF ~deletion_open THEN sc + pen.gapo + pen.gape
                       ELSE sc + pen.gape,
                       FALSE, TRUE)
  ELSE IF edit_op[k] = "M"
  THEN affine_gap_loop(edit_op, pen, k + 1, sc + pen.match, FALSE, FALSE)
  ELSE affine_gap_loop(edit_op, pen, k + 1, sc, insertion_open, deletion_open)

\* the scorer starting with insertion_open set
compute_affine_gap_score_insertion_open(edit_op, user_penalties) ==
  affine_gap_loop(edit_op, user_penalties, 1, 0, TRUE, FALSE)

compute_affine_gap_score(edit_op, user_penalties) ==
  affine_gap_loop(edit_op, user_penalties, 1, 0, FALSE, FALSE)

\* ------------------------------------------------------------- reference
\* The minimum gap-affine penalty the claims speak of, computed from the
\* graph and the query alone by relaxation to a fixpoint.  A position is a
\* column c of vertex v with o query bases consumed, reached by a last
\* operation of kind m: "M" pairs a query base with a graph column, "D" takes
\* a query base alone and "I" a graph column alone; a gap that goes on over an
\* edge is one gap.
SetMin(S) == CHOOSE x \in S : \A y \in S : x <= y

RefStates(G, q) ==
  UNION { [m : {"M", "I", "D"}, v : {v}, c : 0..Len(At(G, v).value), o : 0..Len(q)] :
          v \in 0..(Len(G) - 1) }

RefInf(G, q, pen) ==
  (Len(q) + Len(G) * (MaxLen + 2) + 1) * (pen.gapo + pen.gape + pen.mism + pen.match + 1)

RefGap(pen, m_prev, m) == IF m_prev = m THEN pen.gape ELSE pen.gapo + pen.gape

\* the costs at which x is reached in one operation from the positions of dist
RefCands(G, q, pen, dist, x) ==
  LET val == At(G, x.v).value
      Kinds == {"M", "I", "D"}
      pair == IF x.m = "M" /\ x.c >= 1 /\ x.o >= 1
              THEN {dist[[m |-> k, v |-> x.v, c |-> x.c - 1, o |-> x.o - 1]]
                      + (IF q[x.o] = val[x.c] THEN pen.match ELSE pen.mism) :
                    k \in Kinds}
              ELSE {}
      query_alone == IF x.m = "D" /\ x.o >= 1
                     THEN {dist[[m |-> k, v |-> x.v, c |-> x.c, o |-> x.o - 1]]
                             + RefGap(pen, k, "D") : k \in Kinds}
                     ELSE {}
      column_alone == IF x.m = "I" /\ x.c >= 1
                      THEN {dist[[m |-> k, v |-> x.v, c |-> x.c - 1, o |-> x.o]]
                              + RefGap(pen, k, "I") : k \in Kinds}
                      ELSE {}
      ie == At(G, x.v).in_edges
      over_edge == {dist[[m |-> x.m, v |-> ie[l].from_vertex,
                          c |-> Len(At(G, ie[l].from_vertex).value), o |-> x.o]] :
                    l \in {k \in 1..Len(ie) : ie[k].overlap = x.c}}
  IN pair \cup query_alone \cup column_alone \cup over_edge

RECURSIVE RefFix(_, _, _, _)
RefFix(G, q, pen, dist) ==
  LET next == [x \in DOMAIN dist |->
                 SetMin({dist[x]} \cup RefCands(G, q, pen, dist, x))]
  IN IF next = dist THEN dist ELSE RefFix(G, q, pen, next)

OptimalScore(G, q, pen, start_vtx, start_col, msa) ==
  LET inf == RefInf(G, q, pen)
      first == [m |-> "M", v |-> start_vtx, c |-> start_col, o |-> 0]
      dist == RefFix(G, q, pen,
                     [x \in RefStates(G, q) |-> IF x = first THEN 0 ELSE inf])
      final == {x \in RefStates(G, q) :
                  /\ x.o = Len(q)
                  /\ msa => (x.v = end_vertex /\ x.c = Len(At(G, end_vertex).value))}
  IN SetMin({dist[x] : x \in final})

\* edit_op walked over the query and over the labels along path, from column
\* col of path[p]: "M" and "X" take a query base and a graph column, "D" a
\* query base, "I" a graph column (one_backtrace_step).  TRUE when every M
\* pairs equal bases, every X different ones, and the whole query is taken.
RECURSIVE CigarWalk(_, _, _, _, _, _, _, _)
CigarWalk(G, q, edit_op, path, k, p, col, o) ==
  IF k > Len(edit_op) THEN o = Len(q)
  ELSE IF edit_op[k] = "D"
  THEN o < Len(q) /\ CigarWalk(G, q, edit_op, path, k + 1, p, col, o + 1)
  ELSE IF p > Len(path) THEN FALSE
  ELSE IF col >= Len(At(G, path[p]).value)
  THEN CigarWalk(G, q, edit_op, path, k, p + 1, 0, o)
  ELSE IF edit_op[k] = "I"
  THEN CigarWalk(G, q, edit_op, path, k + 1, p, col + 1, o)
  ELSE /\ o < Len(q)
       /\ edit_op[k] \in {"M", "X"}
       /\ (edit_op[k] = "M") <=> (q[o + 1] = At(G, path[p]).value[col + 1])
       /\ CigarWalk(G, q, edit_op, path, k + 1, p, col + 1, o + 1)

HasEdge(G, u, v) ==
  \E l \in 1..Len(At(G, u).out_edges) : At(G, u).out_edges[l].to_vertex = v

IsWalk(G, path, first, msa) ==
  /\ Len(path) >= 1
  /\ path[1] = first
  /\ \A k \in 1..(Len(path) - 1) : HasEdge(G, path[k], path[k + 1])
  /\ msa => path[Len(path)] = end_vertex

OpCount(edit_op, S) == Cardinality({k \in 1..Len(edit_op) : edit_op[k] \in S})

\* the step in which align() returns
Returns == pc = "loop" /\ pc' = "returned"

C2_MsaScoreIsOptimal ==
  [][(Returns /\ is_msa) =>
       alignment'.score = OptimalScore(graph, seq, penalties, 0, 0, TRUE)]_vars

\* C3: walking the returned edit_op over the query and over the labels along
\* the returned path, from the start column, pairs equal bases at every M,
\* different bases at every X, and consumes the whole query (stated for the
\* alignments of an MSA aligner, which are the backtraced ones).
C3_CigarReproducesQuery ==
  [][(Returns /\ is_msa) =>
       CigarWalk(graph, seq, alignment'.cigar.edit_op, alignment'.cigar.path,
                 1, 1, 0, 0)]_vars

\* C4: the affine-gap score of the returned edit_op under the user's
\* penalties is the integer in Alignment.score (stated for the alignments of
\* an MSA aligner, which are the backtraced ones).
C4_ScoreOfCigarIsScore ==
  (pc = "returned" /\ is_msa) =>
    compute_affine_gap_score(alignment.cigar.edit_op, penalties) = alignment.score

\* C5: when align() reaches its loop the only stored cell is the seed
\* (vertex start_node, offset 0, diag start_offset, prev_pos -1, from MJumps)
\* in the M-jumps buffer, start_node is the only active vertex and the seed's
\* index is in its score-0 M-jumps arrival list.
C5_SeedAtStartPosition ==
  (pc = "loop" /\ score = 0 /\ ~end) =>
    /\ m_wf = <<>>
    /\ \A k \in 1..Len(scope) :
         scope[k].i_wf = <<>> /\ scope[k].d_wf = <<>> /\ scope[k].i_jumps_wf = <<>>
    /\ Len(m_jumps_wf) = 1
    /\ m_jumps_wf[1].vertex_id = start_node
    /\ m_jumps_wf[1].offset = 0
    /\ m_jumps_wf[1].diag = start_offset
    /\ m_jumps_wf[1].prev_pos = -1
    /\ m_jumps_wf[1].from_matrix = "MJumps"
    /\ Len(active_vertices) = 1
    /\ active_vertices[1].vertex_id = start_node
    /\ active_vertices[1].m_jumps_positions[1] = <<0>>

\* C6: the returned path is a walk of the graph the call found: it begins at
\* the start vertex, consecutive vertices are joined by an edge, and in MSA
\* mode it ends at the sink (stated for MSA mode, where the start vertex is
\* the source).
C6_PathIsWalk ==
  [][(Returns /\ is_msa) => IsWalk(graph, alignment'.cigar.path, 0, TRUE)]_vars

C8_EndOnlyAtTerminalCell ==
  end =>
    /\ start_pos.offset = Len(seq)
    /\ \/ \E k \in 1..Len(m_wf) : m_wf[k] = start_pos
       \/ \E k \in 1..Len(m_jumps_wf) : m_jumps_wf[k] = start_pos
    /\ is_msa =>
         /\ start_pos.vertex_id = end_vertex
         /\ start_pos.diag + start_pos.offset = Len(At(graph, end_vertex).value)

C8_Witness ==
  /\ end
  /\ pc = "loop"
  /\ is_msa
  /\ Len(seq) = MaxLen
  /\ score > 1
  /\ start_pos.vertex_id = end_vertex

\* C9: aligning the empty query returns edit_op = [], path = [start_node] and
\* score 0.
C9_EmptyQuery ==
  (pc = "returned" /\ ~is_msa /\ seq = <<>>) =>
    /\ alignment.cigar.edit_op = <<>>
    /\ alignment.cigar.path = <<start_node>>
    /\ alignment.score = 0

\* C10: in MSA mode, aligning a sequence that is present in the graph (the
\* initial sequence or one an earlier align() added) returns score 0 and a
\* CIGAR of |S| operations M.
C10_PresentSequenceMatches ==
  [][(Returns /\ is_msa /\ seq \in present) =>
       /\ alignment'.score = 0
       /\ alignment'.cigar.edit_op = Repeat("M", Len(seq))]_vars

\* ------------------------------------------------------------- whole calls
\* the while (!_end) loop of align, run to its end (or to the score bound)
RECURSIVE align_loop(_)
align_loop(a) ==
  IF a.end \/ a.score >= MaxScore THEN a ELSE align_loop(align_iteration(a))

\* the score align(new_seq) stores in _alignment.score when it is called in
\* the aligner state a; -1 when the loop has not ended at the score bound
align_score(a, new_seq, uninit) ==
  LET result(r) == IF r.end THEN r.score - 1 ELSE -1
  IN result(align_loop(align_begin(a, new_seq, uninit)))

\* C11: in MSA mode, after any sequence of updating align() calls every
\* sequence added so far, the initial one included, still aligns with score 0.
C11_AddedSequencesStillScoreZero ==
  (pc = "returned" /\ is_msa) =>
    \A s \in present : \A uninit \in UninitCell : align_score(Self, s, uninit) = 0

\* the Alignment align(new_seq) returns when it is called in the aligner
\* state a; score -1 when the loop has not ended at the score bound
align_call(a, new_seq, uninit) ==
  LET finish(r) ==
        IF ~r.end THEN [score |-> -1, cigar |-> r.cigar]
        ELSE [score |-> r.score - 1,
              cigar |-> IF a.is_msa
                        THEN backtrace([r EXCEPT !.score = @ - 1], 0, uninit).cigar
                        ELSE r.cigar]
  IN finish(align_loop(align_begin(a, new_seq, uninit)))

\* C12: no step of a non-updating alignment (an anchored align() or
\* TheseusMSA::align_only()) changes the compact graph or the POA graph.
C12_NonUpdatingLeavesGraphs ==
  [][~update' => (graph' = graph /\ poa_graph' = poa_graph)]_vars

\* C13: when a non-updating alignment has returned, aligning the same query
\* again returns the same edit_op, path and score.
C13_NonUpdatingIsRepeatable ==
  (pc = "returned" /\ ~update) =>
    \A uninit \in UninitCell : align_call(Self, seq, uninit) = alignment

\* ------------------------------------------------------------- penalty model
MaxOps == 3

EditOpsUpTo(n) == UNION { [1..k -> {"M", "X", "I", "D"}] : k \in 0..n }

\* Penalties(match, mismatch, gape)
ConstructLinear ==
  /\ given_penalties = NotConstructed
  /\ \E match \in PenaltyValues, mismatch \in PenaltyValues, gape \in PenaltyValues :
       given_penalties' = Penalties_linear(match, mismatch, gape)
  /\ UNCHANGED <<aligner_vars, internal_penalties, scored>>

\* Penalties(match, mismatch, gapo, gape)
ConstructAffine ==
  /\ given_penalties = NotConstructed
  /\ \E match \in PenaltyValues, mismatch \in PenaltyValues,
        gapo \in PenaltyValues, gape \in PenaltyValues :
       given_penalties' = Penalties_affine(match, mismatch, gapo, gape)
  /\ UNCHANGED <<aligner_vars, internal_penalties, scored>>

\* InternalPenalties(penalties)
ConstructInternal ==
  /\ given_penalties # NotConstructed
  /\ internal_penalties = NotConstructed
  /\ internal_penalties' = InternalPenalties(given_penalties)
  /\ UNCHANGED <<aligner_vars, given_penalties, scored>>

\* compute_affine_gap_score(user_penalties) on a CIGAR
ScoreCigar ==
  /\ given_penalties # NotConstructed
  /\ ~scored.done
  /\ \E edit_op \in EditOpsUpTo(MaxOps) :
       scored' = [edit_op |-> edit_op \o <<>>,
                  score |-> compute_affine_gap_score(edit_op \o <<>>, given_penalties),
                  done |-> TRUE]
  /\ UNCHANGED <<aligner_vars, given_penalties, internal_penalties>>

PenaltyNext == ConstructLinear \/ ConstructAffine \/ ConstructInternal \/ ScoreCigar

PenaltyInit == InitFrom(PenaltySet, {<<"A">>}, {})

PenaltySpec == PenaltyInit /\ [][PenaltyNext]_vars

PenaltyInvariantsViolated(p) ==
  p.match > p.mism \/ p.match > p.gapo \/ p.match > p.gape \/ p.gapo < p.gape

C15_LinearAccepted ==
  (/\ given_penalties.type = "Linear"
   /\ internal_penalties # NotConstructed
   /\ given_penalties.match <= given_penalties.mism
   /\ given_penalties.match <= given_penalties.gape)
    => internal_penalties # invalid_argument

GapRunStarts(ops) ==
  {k \in 1..Len(ops) : ops[k] \in {"I", "D"} /\ (k = 1 \/ ops[k - 1] # ops[k])}

GapRunLength(ops, k) ==
  1 + Cardinality({j \in (k + 1)..Len(ops) : \A i \in k..j : ops[i] = ops[k]})

RECURSIVE GapRunCharge(_, _, _)
GapRunCharge(ops, p, starts) ==
  IF starts = {} THEN 0
  ELSE LET k == CHOOSE x \in starts : TRUE
       IN p.gapo + p.gape + (GapRunLength(ops, k) - 1) * p.gape
          + GapRunCharge(ops, p, starts \ {k})

CountOps(ops, op) == Cardinality({k \in 1..Len(ops) : ops[k] = op})

\* C17: the score of a CIGAR is match per M, mism per X and
\* gapo + gape + (k - 1) gape per maximal run of k I's or of k D's, a run
\* beginning wherever an I or a D follows any other symbol.
C17_ScoreChargesGapRuns ==
  scored.done =>
    scored.score = given_penalties.match * CountOps(scored.edit_op, "M")
                   + given_penalties.mism * CountOps(scored.edit_op, "X")
                   + GapRunCharge(scored.edit_op, given_penalties,
                                  GapRunStarts(scored.edit_op))

C17_Witness ==
  /\ scored.done
  /\ scored.edit_op = <<"D", "I", "I">>
  /\ given_penalties.gapo > 0
  /\ given_penalties.gape > 0

\* ------------------------------------------------------------- termination
\* Every cell of a wave is made from a cell that the ring of waves or the jump
\* positions of an active vertex still name.  When they name none, no cell is
\* made any more, so extend_diagonal and check_end_condition no longer run.
WaveWindowEmpty ==
  /\ \A i \in DOMAIN scope :
       /\ scope[i].i_wf = <<>>
       /\ scope[i].d_wf = <<>>
       /\ scope[i].i_jumps_wf = <<>>
       /\ \A k \in DOMAIN scope[i].m_pos : scope[i].m_pos[k].start >= scope[i].m_pos[k].end
  /\ \A l \in DOMAIN active_vertices :
       /\ \A k \in DOMAIN active_vertices[l].m_jumps_positions :
            active_vertices[l].m_jumps_positions[k] = <<>>
       /\ \A k \in DOMAIN active_vertices[l].i_jumps_positions :
            active_vertices[l].i_jumps_positions[k] = <<>>

\* C18: in MSA mode, once no cell of the sink can become reachable, align()
\* stops at a cap on the score (reporting the query as unalignable): it is
\* not found still iterating at the score MaxScore.
C18_MsaLoopGivesUp ==
  (pc = "loop" /\ is_msa /\ ~end /\ WaveWindowEmpty) => score < MaxScore

\* C19: in anchored mode the score loop always terminates, so it never
\* reaches a score at which no wave can produce a cell any more while _end
\* is still false.
C19_AnchoredLoopTerminates ==
  ~(pc = "loop" /\ ~is_msa /\ ~end /\ WaveWindowEmpty)

\* ------------------------------------------------------------- jump chain
\* The calls extend_diagonal -> store_M_jump -> extend_diagonal that the first
\* iteration of align() starts from the initial cell, one call or one out-edge
\* at a step.  chain.stack holds the running store_M_jump calls, innermost
\* last; chain.extend the cell extend_diagonal is about to run on.
MaxChainSteps == 24

Frame(v, new_cell, new_diag, l) ==
  [v |-> v, new_cell |-> new_cell, new_diag |-> new_diag, l |-> l]

\* align(seq) up to extend_diagonal on the initial cell
ChainBegin ==
  /\ pc = "idle"
  /\ \E new_seq \in SeqsUpTo(MaxLen), uninit \in UninitCell :
       LET a == align_begin(Self, new_seq, uninit)
       IN /\ Assign(a)
          /\ alignment' = [alignment EXCEPT !.cigar = a.cigar]
  /\ chain' = [NoChain EXCEPT !.extend = << [v |-> 0, pos |-> 0] >>]
  /\ pc' = "chain"
  /\ UNCHANGED <<penalties, sweep, wave, call, graph, poa_graph, is_msa, seq_ID, start_node,
                 start_offset, update, present, penalty_vars>>

\* extend_diagonal on a cell of m_jumps_wf, up to the loop of store_M_jump
ChainExtend ==
  /\ pc = "chain"
  /\ chain.extend # <<>>
  /\ chain.steps < MaxChainSteps
  /\ LET v == chain.extend[1].v
         prev_pos == chain.extend[1].pos
         a == Self
         curr_cell == At(a.m_jumps_wf, prev_pos)
         val == At(a.graph, v).value
         offset == LCP(a.seq, val, curr_cell.offset, curr_cell.diag + curr_cell.offset)
         j == curr_cell.diag + offset
         extended == [curr_cell EXCEPT !.offset = offset]
         a1 == [a EXCEPT !.m_jumps_wf[prev_pos + 1] = extended]
         a2 == check_end_condition(a1, extended, j, v)
         new_cell == [extended EXCEPT !.from_matrix = "MJumps",
                                      !.prev_pos = prev_pos,
                                      !.edit_op = "M"]
     IN IF j = Len(val) /\ offset <= Len(a.seq) /\ Len(At(a.graph, v).out_edges) > 0
        THEN /\ Assign(invalidate_m_jump(a2, get_id(a2, extended.vertex_id),
                                         extended.diag))
             /\ chain' = [chain EXCEPT
                            !.stack = Append(@, Frame(v, new_cell, -extended.offset, 1)),
                            !.extend = <<>>,
                            !.jumps = @ + 1,
                            !.steps = @ + 1]
        ELSE /\ Assign(a2)
             /\ chain' = [chain EXCEPT !.extend = <<>>, !.steps = @ + 1]
  /\ UNCHANGED <<penalties, sweep, wave, call, graph, poa_graph, is_msa, seq_ID, alignment,
                 start_node, start_offset, update, present, pc, penalty_vars>>

\* one round of the loop of store_M_jump over the out-edges
ChainStore ==
  /\ pc = "chain"
  /\ chain.extend = <<>>
  /\ chain.stack # <<>>
  /\ chain.steps < MaxChainSteps
  /\ LET n == Len(chain.stack)
         top == chain.stack[n]
         a == Self
         out == At(a.graph, top.v).out_edges
     IN /\ top.l <= Len(out)
        /\ LET c == [top.new_cell EXCEPT !.vertex_id = out[top.l].to_vertex,
                                          !.diag = top.new_diag + out[top.l].overlap]
               a1 == activate_vertex(a, c.vertex_id)
               pos_new_cell == Len(a1.m_jumps_wf)
           IN IF valid_diagonal(a1, "M", c.vertex_id, c.diag)
              THEN /\ Assign([a1 EXCEPT
                               !.m_jumps_wf = Append(@, c),
                               !.active_vertices[get_id(a1, c.vertex_id) + 1]
                                  .m_jumps_positions[get_pos(a1, a1.score) + 1] =
                                      Append(@, pos_new_cell)])
                   /\ chain' = [chain EXCEPT
                                  !.stack[n].l = @ + 1,
                                  !.extend = << [v |-> c.vertex_id, pos |-> pos_new_cell] >>,
                                  !.steps = @ + 1]
              ELSE /\ Assign(a1)
                   /\ chain' = [chain EXCEPT !.stack[n].l = @ + 1, !.steps = @ + 1]
  /\ UNCHANGED <<penalties, sweep, wave, call, graph, poa_graph, is_msa, seq_ID, alignment,
                 start_node, start_offset, update, present, pc, penalty_vars>>

\* store_M_jump has gone through the out-edges and returns
ChainReturn ==
  /\ pc = "chain"
  /\ chain.extend = <<>>
  /\ chain.stack # <<>>
  /\ LET n == Len(chain.stack)
     IN /\ chain.stack[n].l > Len(At(graph, chain.stack[n].v).out_edges)
        /\ chain' = [chain EXCEPT !.stack = SubSeq(@, 1, n - 1)]
  /\ UNCHANGED <<penalties, sweep, wave, call, graph, poa_graph, is_msa, seq_ID, seq, score, end,
                 start_pos, m_wf, m_jumps_wf, scope, active_vertices, vertex_to_idx,
                 scratchpad, alignment, start_node, start_offset, update, present,
                 pc, penalty_vars>>

\* the first extend_diagonal returns to align()
ChainEnd ==
  /\ pc = "chain"
  /\ chain.extend = <<>>
  /\ chain.stack = <<>>
  /\ pc' = "chained"
  /\ UNCHANGED <<penalties, sweep, wave, call, graph, poa_graph, is_msa, seq_ID, seq, score, end,
                 start_pos, m_wf, m_jumps_wf, scope, active_vertices, vertex_to_idx,
                 scratchpad, alignment, start_node, start_offset, update, chain,
                 present, penalty_vars>>

ChainNext == ChainBegin \/ ChainExtend \/ ChainStore \/ ChainReturn \/ ChainEnd

ChainInit ==
  InitFrom(PenaltySet, SeqsUpTo(MaxLen) \ {<<>>},
           AnchoredGraphs \cup EmptyLabelGraphs \cup OverlapGraphs)

ChainSpec == ChainInit /\ [][ChainNext]_vars

\* C20: the chain store_M_jump -> extend -> store_M_jump that one cell starts
\* ends on every graph, with cycles and with empty labels: a diagonal of a
\* vertex is left by a jump once at most, which store_M_jump makes sure of
\* by invalidating it, so the chain makes no more jumps than there are
\* vertices times offsets in the query, and it returns to align().
C20_JumpChainEnds ==
  /\ chain.jumps <= Len(graph) * (Len(seq) + 1)
  /\ pc = "chain" => chain.steps < MaxChainSteps

C20_Witness ==
  /\ pc = "chained"
  /\ chain.jumps >= 2
  /\ \E l \in 1..Len(graph) : graph[l].value = <<>> /\ graph[l].in_edges # <<>>
  /\ ~is_msa

\* ------------------------------------------------------------- predecessor links
\* the cell at position k (from 0) of the wavefront buf refers to a cell of
\* m_wf or m_jumps_wf that was stored before it
Resolves(c, buf, k) ==
  /\ c.prev_pos # -1
  /\ \/ /\ c.from_matrix = "M"
        /\ c.prev_pos \in 0..(Len(m_wf) - 1)
        /\ buf = "M" => c.prev_pos < k
     \/ /\ c.from_matrix = "MJumps"
        /\ c.prev_pos \in 0..(Len(m_jumps_wf) - 1)
        /\ buf = "MJumps" => c.prev_pos < k

\* C21: every cell of every wavefront either is the origin seed, the first
\* cell of m_jumps_wf, and has prev_pos = -1, or is another cell and its
\* (from_matrix, prev_pos) indexes a cell stored before it.
C21_PredecessorLinks ==
  /\ Len(m_jumps_wf) > 0 => m_jumps_wf[1].prev_pos = -1
  /\ \A k \in 1..Len(m_wf) : Resolves(m_wf[k], "M", k - 1)
  /\ \A k \in 2..Len(m_jumps_wf) : Resolves(m_jumps_wf[k], "MJumps", k - 1)
  /\ \A s \in 1..Len(scope) :
       /\ \A k \in 1..Len(scope[s].i_wf) : Resolves(scope[s].i_wf[k], "I", k - 1)
       /\ \A k \in 1..Len(scope[s].d_wf) : Resolves(scope[s].d_wf[k], "D", k - 1)
       /\ \A k \in 1..Len(scope[s].i_jumps_wf) :
            Resolves(scope[s].i_jumps_wf[k], "IJumps", k - 1)

\* the cells of all wavefronts
StoredCells ==
  {m_wf[k] : k \in 1..Len(m_wf)} \cup {m_jumps_wf[k] : k \in 1..Len(m_jumps_wf)}
  \cup UNION {{scope[s].i_wf[k] : k \in 1..Len(scope[s].i_wf)}
              \cup {scope[s].d_wf[k] : k \in 1..Len(scope[s].d_wf)}
              \cup {scope[s].i_jumps_wf[k] : k \in 1..Len(scope[s].i_jumps_wf)}
              : s \in 1..Len(scope)}

\* some stored cell, other than the seed, refers to position k of buf
Referenced(buf, k) ==
  \E c \in StoredCells \ {m_jumps_wf[j] : j \in {1} \cap DOMAIN m_jumps_wf} :
    c.from_matrix = buf /\ c.prev_pos = k

\* the references backtrace follows from cell c on, at most fuel of them, name
\* positions of m_wf or m_jumps_wf
RECURSIVE FollowedLinksResolve(_, _)
FollowedLinksResolve(c, fuel) ==
  \/ c.vertex_id = 0
  \/ fuel = 0
  \/ /\ c.from_matrix = "M"
     /\ c.prev_pos \in 0..(Len(m_wf) - 1)
     /\ FollowedLinksResolve(At(m_wf, c.prev_pos), fuel - 1)
  \/ /\ c.from_matrix = "MJumps"
     /\ c.prev_pos \in 0..(Len(m_jumps_wf) - 1)
     /\ FollowedLinksResolve(At(m_jumps_wf, c.prev_pos), fuel - 1)

\* C22: a cell of m_wf or m_jumps_wf that a stored cell refers to is never
\* changed, removed or moved by a later wave, and when the loop has ended
\* every reference backtrace follows from start_pos names a cell of m_wf or
\* m_jumps_wf, which backtrace leaves as they are.
C22_BacktraceReadsStoredCells ==
  [][/\ (pc = "loop" /\ pc' = "loop") =>
          /\ \A k \in 1..Len(m_wf) :
               Referenced("M", k - 1) => k <= Len(m_wf') /\ m_wf'[k] = m_wf[k]
          /\ \A k \in 1..Len(m_jumps_wf) :
               Referenced("MJumps", k - 1) =>
                  k <= Len(m_jumps_wf') /\ m_jumps_wf'[k] = m_jumps_wf[k]
     /\ (pc = "loop" /\ pc' = "returned" /\ is_msa) =>
          /\ FollowedLinksResolve(start_pos, Len(m_wf) + Len(m_jumps_wf))
          /\ m_wf' = m_wf /\ m_jumps_wf' = m_jumps_wf]_vars

\* an MSA alignment has been backtraced through cells of both buffers
C22_Witness ==
  /\ pc = "returned" /\ is_msa
  /\ start_pos.vertex_id # 0
  /\ start_pos.from_matrix = "M"
  /\ At(m_wf, start_pos.prev_pos).from_matrix = "MJumps"

\* ------------------------------------------------------------- backtrace
\* the loop of backtrace, started at cell c, visits only cells with
\* prev_pos # -1 and ends, within fuel steps, at a cell with prev_pos = -1
RECURSIVE LoopStopsAtSeed(_, _, _)
LoopStopsAtSeed(c, uninit, fuel) ==
  IF c.vertex_id = 0
  THEN c.prev_pos = -1
  ELSE /\ c.prev_pos # -1
       /\ fuel > 0
       /\ LoopStopsAtSeed(prev_of(Self, c, uninit), uninit, fuel - 1)

\* C23: when the loop of align has ended in MSA mode, the loop of backtrace
\* started at start_pos runs exactly while curr.prev_pos # -1: it passes only
\* cells with prev_pos # -1 and it ends, after finitely many steps, at the
\* origin seed, whose prev_pos is -1.
C23_BacktraceRunsToSeed ==
  (pc = "loop" /\ end /\ is_msa) =>
     \A uninit \in UninitCell :
        LoopStopsAtSeed(start_pos, uninit, Len(m_wf) + Len(m_jumps_wf))

\* ------------------------------------------------------------- ranges
\* the ranges of pos are half-open, follow one another without gap or
\* overlap, and together cover exactly the positions lo .. hi - 1
RangesTile(pos, lo, hi) ==
  /\ \A k \in 1..Len(pos) : pos[k].start <= pos[k].end
  /\ \A k \in 1..(Len(pos) - 1) : pos[k].end = pos[k + 1].start
  /\ Len(pos) > 0 => pos[1].start = lo /\ pos[Len(pos)].end = hi
  /\ Len(pos) = 0 => lo = hi

\* the range at slot k holds only cells of the vertex in active slot k
RangesOfVertices(pos, wf, av) ==
  /\ Len(pos) <= Len(av)
  /\ \A k \in 1..Len(pos) :
       \A p \in pos[k].start..(pos[k].end - 1) :
         At(wf, p).vertex_id = av[k].vertex_id

\* C25: after the wave of score s the ranges of i_pos(s), d_pos(s) and
\* m_pos(s) are, in active-vertex slot order, contiguous and non-overlapping
\* and tile exactly the I, D and M cells written at score s, and the range at
\* slot k holds only cells of the vertex in active slot k; the same holds of
\* the ranges of every slot of the ring for the I and D wavefronts kept there.
\* (With a ring of one slot the slot of score s is cleared as soon as the
\* wave ends, so nothing is left to compare.)
C25_RangesTileWavefronts ==
  [][(pc = "loop" /\ pc' = "loop" /\ n_scores(penalties) > 1) =>
       /\ LET cur == scope'[(score % n_scores(penalties)) + 1]
          IN /\ RangesTile(cur.m_pos, Len(m_wf), Len(m_wf'))
             /\ RangesTile(cur.i_pos, 0, Len(cur.i_wf))
             /\ RangesTile(cur.d_pos, 0, Len(cur.d_wf))
             /\ Len(cur.m_pos) >= Len(active_vertices)
             /\ Len(cur.i_pos) = Len(cur.m_pos) /\ Len(cur.d_pos) = Len(cur.m_pos)
       /\ \A s \in 1..Len(scope') :
            /\ RangesTile(scope'[s].i_pos, 0, Len(scope'[s].i_wf))
            /\ RangesTile(scope'[s].d_pos, 0, Len(scope'[s].d_wf))
            /\ RangesOfVertices(scope'[s].i_pos, scope'[s].i_wf, active_vertices')
            /\ RangesOfVertices(scope'[s].d_pos, scope'[s].d_wf, active_vertices')
            /\ RangesOfVertices(scope'[s].m_pos, m_wf', active_vertices')]_vars

\* waves have stored I and D cells for the vertex of the second active slot,
\* after an empty range for the first, and M cells for some vertex
C25_Witness ==
  /\ pc = "loop"
  /\ \E s \in 1..Len(scope) :
       Len(scope[s].i_pos) >= 2 /\ scope[s].i_pos[2].start < scope[s].i_pos[2].end
  /\ \E s \in 1..Len(scope) :
       Len(scope[s].d_pos) >= 2 /\ scope[s].d_pos[2].start < scope[s].d_pos[2].end
  /\ \E s \in 1..Len(scope) :
       \E k \in 1..Len(scope[s].m_pos) :
         scope[s].m_pos[k].start < scope[s].m_pos[k].end

\* ------------------------------------------------------------- ring
\* how many scores back a wave reads
Reach(pen) == Max(pen.gapo + pen.gape, pen.mism)

\* the ring slot of score t and the jump-arrival lists of score t are the
\* same before and after the step
SlotKept(t) ==
  /\ scope'[get_pos(Self, t) + 1] = scope[get_pos(Self, t) + 1]
  /\ \A k \in 1..Len(active_vertices) :
       /\ active_vertices'[k].vertex_id = active_vertices[k].vertex_id
       /\ active_vertices'[k].m_jumps_positions[get_pos(Self, t) + 1]
            = active_vertices[k].m_jumps_positions[get_pos(Self, t) + 1]
       /\ active_vertices'[k].i_jumps_positions[get_pos(Self, t) + 1]
            = active_vertices[k].i_jumps_positions[get_pos(Self, t) + 1]

\* C26: the wave of score s and the clearing that follows it leave the ring
\* slot and the jump-arrival lists of every earlier score that a later wave
\* still reads (the scores from s + 1 - max(gapo + gape, mism) on) as they
\* were written, and the reads of a wave for a negative score contribute
\* nothing: no I or D cell is written at a score below gapo + gape and no M
\* cell at a score below both gapo + gape and mism.
C26_RingKeepsWhatWavesRead ==
  [][(pc = "loop" /\ pc' = "loop") =>
       /\ \A t \in 0..(score - 1) :
            t >= score + 1 - Reach(penalties) => SlotKept(t)
       /\ score < penalties.gapo + penalties.gape =>
            \A s \in 1..Len(scope') : scope'[s].i_wf = <<>> /\ scope'[s].d_wf = <<>>
       /\ (score < penalties.gapo + penalties.gape /\ score < penalties.mism) =>
            m_wf' = m_wf]_vars

\* the wave of score 2 has kept the M cells, ranges and jump arrivals of
\* score 1, which the wave of score 3 reads
C26_Witness ==
  /\ pc = "loop" /\ score = 3
  /\ Len(scope[get_pos(Self, 1) + 1].m_pos) > 0
  /\ scope[get_pos(Self, 1) + 1].m_pos[1].start < scope[get_pos(Self, 1) + 1].m_pos[1].end
  /\ \E k \in 1..Len(active_vertices) :
       active_vertices[k].m_jumps_positions[get_pos(Self, 1) + 1] # <<>>
  /\ scope[get_pos(Self, 2) + 1].d_wf # <<>>

\* ------------------------------------------------------------- sparsify sweeps
\* The sparsify passes of next_I, next_D and next_M, one pass per step, on
\* wavefronts drawn from small sets; MaxCands cells are proposed in all.
MaxCells == 2

MaxCands == 3

\* the cells a wavefront of vertex v can hold: 0 <= offset, 0 <= column <= |label|
SweepCells(v) ==
  {Cell(pp, v, o, d, fm, "M") :
     pp \in {0}, o \in 0..MaxLen, d \in -1..0, fm \in {"M"}}

DenseWavefronts(v) ==
  {w \in UNION {[1..k -> SweepCells(v)] : k \in 1..MaxCells} :
     \A k \in 1..Len(w) :
        w[k].offset + w[k].diag \in 0..Len(At(graph, v).value)}

\* the cell a sparsify pass proposes for the cell c found at position p
Proposed(c, p, offset_increase, shift_factor, from_matrix, edit_op) ==
  [c EXCEPT !.diag = @ + shift_factor,
            !.offset = @ + offset_increase,
            !.prev_pos = IF from_matrix \in {"M", "MJumps"} THEN p ELSE @,
            !.from_matrix = IF from_matrix \in {"M", "MJumps"} THEN from_matrix ELSE @,
            !.edit_op = edit_op]

\* process_vertex turns to the sweep of a vertex on a reset scratchpad
SweepBegin ==
  /\ pc = "idle"
  /\ seq' \in {q \in SeqsUpTo(MaxLen) : \A k \in 1..Len(q) : q[k] = "A"}
  /\ \E v \in 0..(Len(graph) - 1) : sweep' = [v |-> v, cands |-> <<>>, proposed |-> 0]
  /\ pc' = "sweep"
  /\ UNCHANGED <<penalties, wave, call, graph, poa_graph, is_msa, seq_ID, score, end, start_pos,
                 m_wf, m_jumps_wf, scope, active_vertices, vertex_to_idx,
                 scratchpad, alignment, start_node, start_offset, update, chain,
                 present, penalty_vars>>

\* what a pass leaves alone
SweepFrame ==
  UNCHANGED <<penalties, wave, call, graph, poa_graph, is_msa, seq_ID, seq, score, end,
              start_pos, m_wf, m_jumps_wf, scope, active_vertices, vertex_to_idx,
              alignment, start_node, start_offset, update, chain, present, pc,
              penalty_vars>>

\* sparsify_M_data over a whole wavefront of the vertex
SparsifyM ==
  /\ pc = "sweep"
  /\ \E dense_wf \in DenseWavefronts(sweep.v) :
       \E t \in {<<0, 1, "Ins">>, <<1, -1, "Del">>, <<1, 0, "M">>} :
         /\ sweep.proposed + Len(dense_wf) <= MaxCands
         /\ \A j, k \in 1..Len(dense_wf) : j # k => dense_wf[j].diag # dense_wf[k].diag
         /\ scratchpad' = sparsify_M_data(scratchpad, dense_wf, t[1], t[2], 0,
                                          Len(dense_wf), Len(seq),
                                          Len(At(graph, sweep.v).value), t[3])
         /\ sweep' = [sweep EXCEPT !.proposed = @ + Len(dense_wf), !.cands = @ \o
                        [k \in 1..Len(dense_wf) |->
                           Proposed(dense_wf[k], k - 1, t[1], t[2], "M", t[3])]]
  /\ SweepFrame

\* sparsify_indel_data over a whole wavefront of the vertex
SparsifyIndel ==
  /\ pc = "sweep"
  /\ \E dense_wf \in DenseWavefronts(sweep.v) :
       \E t \in {<<0, 1, "Ins">>, <<1, -1, "Del">>, <<0, 0, "Del">>, <<0, 0, "Ins">>} :
         /\ sweep.proposed + Len(dense_wf) <= MaxCands
         /\ \A j, k \in 1..Len(dense_wf) : j # k => dense_wf[j].diag # dense_wf[k].diag
         /\ scratchpad' = sparsify_indel_data(scratchpad, dense_wf, t[1], t[2], 0,
                                              Len(dense_wf), Len(seq),
                                              Len(At(graph, sweep.v).value), t[3])
         /\ sweep' = [sweep EXCEPT !.proposed = @ + Len(dense_wf), !.cands = @ \o
                        [k \in 1..Len(dense_wf) |->
                           Proposed(dense_wf[k], k - 1, t[1], t[2], "I", t[3])]]
  /\ SweepFrame

\* sparsify_jumps_data over the cells that jumped into the vertex
SparsifyJumps ==
  /\ pc = "sweep"
  /\ \E dense_wf \in DenseWavefronts(sweep.v) :
       \E t \in {<<0, 1, "IJumps", "Ins">>, <<0, 1, "MJumps", "Ins">>,
                 <<1, -1, "MJumps", "Del">>, <<1, 0, "MJumps", "M">>} :
         /\ sweep.proposed + Len(dense_wf) <= MaxCands
         /\ scratchpad' = sparsify_jumps_data(scratchpad, dense_wf,
                                              [k \in 1..Len(dense_wf) |-> k - 1], 1,
                                              t[1], t[2], Len(seq),
                                              Len(At(graph, sweep.v).value),
                                              t[3], t[4])
         /\ sweep' = [sweep EXCEPT !.proposed = @ + Len(dense_wf), !.cands = @ \o
                        [k \in 1..Len(dense_wf) |->
                           Proposed(dense_wf[k], k - 1, t[1], t[2], t[3], t[4])]]
  /\ SweepFrame

\* the sweep ends: the scratchpad is reset for the next sweep of the vertex
SweepReset ==
  /\ pc = "sweep"
  /\ scratchpad' = reset(scratchpad)
  /\ sweep' = [sweep EXCEPT !.cands = <<>>]
  /\ SweepFrame

SweepNext == SweepBegin \/ SparsifyM \/ SparsifyIndel \/ SparsifyJumps \/ SweepReset

SweepInit == InitFrom(PenaltySet, {<<"A">>}, {})

SweepSpec == SweepInit /\ [][SweepNext]_vars

\* the proposed cell is inside the query and the label of the vertex
InBounds(c) ==
  c.offset <= Len(seq) /\ c.offset + c.diag <= Len(At(graph, sweep.v).value)

\* the positions in sweep.cands of the in-bounds cells proposed for diagonal d
ProposedFor(d) ==
  {k \in 1..Len(sweep.cands) : sweep.cands[k].diag = d /\ InBounds(sweep.cands[k])}

\* the first proposed cell of largest offset among those of ProposedFor(d)
FirstBest(d) ==
  LET K == ProposedFor(d)
      best == CHOOSE k \in K :
                \A j \in K : \/ sweep.cands[j].offset < sweep.cands[k].offset
                             \/ sweep.cands[j].offset = sweep.cands[k].offset /\ k <= j
  IN sweep.cands[best]

\* C27: during a sweep the touched diagonals are the diagonals some in-bounds
\* cell was proposed for, and each of them holds the proposed in-bounds cell
\* of largest offset, the first one proposed among those of equal offset.
C27_PadKeepsFirstMaximum ==
  pc = "sweep" =>
    /\ {scratchpad.active_diags[k] : k \in 1..Len(scratchpad.active_diags)}
         = {d \in -3..3 : ProposedFor(d) # {}}
    /\ \A d \in -3..3 : ProposedFor(d) # {} => pad_cell(scratchpad, d) = FirstBest(d)

\* three cells were proposed for one diagonal: an out-of-bounds one, then two
\* in-bounds ones of equal offset, of which the pad holds the first
C27_Witness ==
  /\ pc = "sweep" /\ Len(sweep.cands) = 3
  /\ sweep.cands[1].diag = sweep.cands[2].diag /\ sweep.cands[1].diag = sweep.cands[3].diag
  /\ ~InBounds(sweep.cands[1])
  /\ InBounds(sweep.cands[2]) /\ InBounds(sweep.cands[3])
  /\ sweep.cands[2].offset = sweep.cands[3].offset
  /\ sweep.cands[2] # sweep.cands[3]
  /\ pad_cell(scratchpad, sweep.cands[2].diag) = sweep.cands[2]

\* C28: between two resets a diagonal enters the touched list at the first
\* access_alloc for it and at no later one: active_diags never holds the same
\* diagonal twice, however many cells were proposed for it.
C28_TouchedOnce ==
  pc = "sweep" =>
    \A j, k \in 1..Len(scratchpad.active_diags) :
       j # k => scratchpad.active_diags[j] # scratchpad.active_diags[k]

\* one diagonal was accessed three times in a sweep and is listed once
C28_Witness ==
  /\ pc = "sweep"
  /\ \E d \in -3..3 :
       /\ Cardinality(ProposedFor(d)) = 3
       /\ scratchpad.active_diags = <<d>>

\* C29: when reset() returns every cell of the scratchpad has offset -1 and
\* the touched list is empty, so the next sweep starts from a scratchpad in
\* which no diagonal counts as touched.
C29_ResetClearsPad ==
  [][(pc = "sweep" /\ sweep'.cands = <<>>) =>
       /\ scratchpad'.active_diags = <<>>
       /\ \A d \in -3..3 : pad_cell(scratchpad', d).offset = -1]_vars

\* a reset has cleared a scratchpad in which cells had been stored
C29_Witness ==
  /\ pc = "sweep" /\ sweep.cands = <<>> /\ sweep.proposed >= 2
  /\ scratchpad.active_diags = <<>>
  /\ \E d, e \in DOMAIN scratchpad.wf :
       d # e /\ scratchpad.wf[d].vertex_id = sweep.v /\ scratchpad.wf[e].vertex_id = sweep.v

\* ------------------------------------------------------------- scratchpad range
MaxLabel(G) == MaxOf({0} \cup {Len(G[l].value) : l \in 1..Len(G)})

\* whatever scratchpad an earlier alignment left, the one in use after
\* new_alignment covers [-|query|, longest label]
PadSizedFor(new_seq) ==
  \A lo \in (-MaxLen - 1)..0, hi \in 0..(MaxLen + 1), uninit \in UninitCell :
     LET a == align_begin([Self EXCEPT !.scratchpad = ScratchPad(lo, hi)],
                          new_seq, uninit)
     IN /\ a.scratchpad.min_diag <= -Len(new_seq)
        /\ a.scratchpad.max_diag >= MaxLabel(graph)

process_vertex_swapping_I_and_D ==
  <<"next_D", "reset", "next_I", "reset", "next_M", "reset", "extend">>

process_vertex_statements ==
  <<"next_I", "reset", "next_D", "reset", "next_M", "reset", "extend">>

\* an iteration of the while (!_end) loop starts: the score-0 extension of the
\* seed, and expand() of compute_new_wave
WaveBegin ==
  /\ pc = "loop"
  /\ ~end
  /\ score < MaxScore
  /\ LET a1 == IF score = 0 THEN extend_diagonal(Self, 0, 0, "MJumps") ELSE Self
     IN Assign(expand(a1))
  /\ pc' = "expanded"
  /\ UNCHANGED <<penalties, sweep, wave, call, graph, poa_graph, is_msa, seq_ID, alignment,
                 start_node, start_offset, update, chain, present, penalty_vars>>

\* compact() of compute_new_wave and the read of num_active_vertices
WaveCompact ==
  /\ pc = "expanded"
  /\ Assign(compact(Self))
  /\ wave' = [l |-> 0, k |-> 1, num_active_vertices |-> num_active_vertices(Self)]
  /\ pc' = "wave"
  /\ UNCHANGED <<penalties, sweep, call, graph, poa_graph, is_msa, seq_ID, alignment,
                 start_node, start_offset, update, chain, present, penalty_vars>>

\* the statement of process_vertex at which the wave stands runs on
\* v = get_vertex_id(l); after the last one the for loop takes the next slot
WaveStatement(name, a) ==
  /\ pc = "wave"
  /\ wave.l < wave.num_active_vertices
  /\ process_vertex_statements[wave.k] = name
  /\ Assign(a)
  /\ wave' = IF wave.k = Len(process_vertex_statements)
             THEN [wave EXCEPT !.l = @ + 1, !.k = 1]
             ELSE [wave EXCEPT !.k = @ + 1]
  /\ UNCHANGED <<penalties, sweep, call, graph, poa_graph, is_msa, seq_ID, alignment,
                 start_node, start_offset, update, chain, present, pc, penalty_vars>>

WaveNextI ==
  LET v == get_vertex_id(Self, wave.l)
  IN WaveStatement("next_I", next_I(Self, v, Len(At(graph, v).value)))

WaveNextD ==
  LET v == get_vertex_id(Self, wave.l)
  IN WaveStatement("next_D", next_D(Self, v, Len(At(graph, v).value)))

WaveNextM ==
  LET v == get_vertex_id(Self, wave.l)
  IN WaveStatement("next_M", next_M(Self, v, Len(At(graph, v).value)))

WaveReset == WaveStatement("reset", scratchpad_reset(Self))

WaveExtend ==
  LET v == get_vertex_id(Self, wave.l)
      cells_range == At(slot(Self, score).m_pos, get_id(Self, v))
  IN WaveStatement("extend", extend_range(Self, v, cells_range.start, cells_range.end))

\* the for loop of compute_new_wave is over: the score is updated and the
\* slot of the new score is cleared
WaveEnd ==
  /\ pc = "wave"
  /\ wave.l >= wave.num_active_vertices
  /\ LET a1 == [Self EXCEPT !.score = @ + 1]
     IN Assign(vertices_new_score(scope_new_score(a1, a1.score), a1.score))
  /\ wave' = NoWave
  /\ pc' = "loop"
  /\ UNCHANGED <<penalties, sweep, call, graph, poa_graph, is_msa, seq_ID, alignment,
                 start_node, start_offset, update, chain, present, penalty_vars>>

WaveNext ==
  \/ AlignBegin
  \/ WaveBegin
  \/ WaveCompact
  \/ WaveNextI
  \/ WaveReset
  \/ WaveNextD
  \/ WaveNextM
  \/ WaveExtend
  \/ WaveEnd
  \/ AlignReturn

\* penalties with a gap extension other than one
SlowGapPenaltySet == { [match |-> 0, mism |-> 2, gapo |-> 1, gape |-> 2] }

WaveInit ==
  InitFrom(PenaltySet \cup SlowGapPenaltySet, {<<"A", "C">>},
           AnchoredGraphs \cup EmptyLabelGraphs)

WaveSpec == WaveInit /\ [][WaveNext]_vars

\* the ring slot of the score being computed, before and after a step
Wave == scope[(score % Len(scope)) + 1]

WaveAfter == scope'[(score % Len(scope)) + 1]

PadClean == scratchpad.active_diags = <<>>

\* C31: within one score the active slots are swept in their order in the
\* active list, and for one vertex next_I is over before next_D starts, which
\* is over before next_M starts: a sweep that appends the range of slot l to
\* the I ranges finds l ranges in all three lists and writes cells of the
\* vertex of slot l, the D sweep finds the I range of its slot written, the M
\* sweep the I and the D range; each sweep starts on a reset scratchpad, the
\* M cells of the score are extended in place only after all three ranges of
\* their slot are written and the scratchpad is reset, and the wave ends on a
\* reset scratchpad.
C31_SweepOrder ==
  [][/\ (pc = "wave" /\ pc' = "wave") =>
          /\ Len(WaveAfter.i_pos) > Len(Wave.i_pos) =>
               /\ PadClean
               /\ Len(Wave.d_pos) = Len(Wave.i_pos)
               /\ Len(Wave.m_pos) = Len(Wave.i_pos)
               /\ Len(WaveAfter.i_pos) = Len(Wave.i_pos) + 1
               /\ Len(Wave.i_pos) < Len(active_vertices)
               /\ \A k \in 1..Len(WaveAfter.i_wf) :
                    k > Len(Wave.i_wf) =>
                      WaveAfter.i_wf[k].vertex_id
                        = active_vertices[Len(Wave.i_pos) + 1].vertex_id
          /\ Len(WaveAfter.d_pos) > Len(Wave.d_pos) =>
               /\ PadClean
               /\ Len(Wave.i_pos) = Len(Wave.d_pos) + 1
               /\ Len(Wave.m_pos) = Len(Wave.d_pos)
               /\ \A k \in 1..Len(WaveAfter.d_wf) :
                    k > Len(Wave.d_wf) =>
                      WaveAfter.d_wf[k].vertex_id
                        = active_vertices[Len(Wave.d_pos) + 1].vertex_id
          /\ Len(WaveAfter.m_pos) > Len(Wave.m_pos) =>
               /\ PadClean
               /\ Len(Wave.i_pos) = Len(Wave.m_pos) + 1
               /\ Len(Wave.d_pos) = Len(Wave.m_pos) + 1
               /\ \A k \in 1..Len(m_wf') :
                    k > Len(m_wf) =>
                      m_wf'[k].vertex_id
                        = active_vertices[Len(Wave.m_pos) + 1].vertex_id
          /\ (\E k \in 1..Len(m_wf) : m_wf'[k] # m_wf[k]) =>
               /\ PadClean
               /\ Len(Wave.i_pos) = Len(Wave.m_pos)
               /\ Len(Wave.d_pos) = Len(Wave.m_pos)
               /\ \A k \in 1..Len(m_wf) :
                    m_wf'[k] # m_wf[k] =>
                      /\ Len(Wave.m_pos) > 0
                      /\ k > Wave.m_pos[Len(Wave.m_pos)].start
                      /\ k <= Wave.m_pos[Len(Wave.m_pos)].end
     /\ (pc = "wave" /\ pc' = "loop") =>
          /\ PadClean
          /\ Len(Wave.i_pos) = wave.num_active_vertices
          /\ Len(Wave.d_pos) = wave.num_active_vertices
          /\ Len(Wave.m_pos) = wave.num_active_vertices]_vars

\* the second active slot has had its three sweeps, each writing cells, and
\* an M cell of the score was extended
C31_Witness ==
  /\ pc = "wave"
  /\ Len(Wave.m_pos) >= 2
  /\ Wave.i_pos[2].end > Wave.i_pos[2].start
  /\ Wave.d_pos[2].end > Wave.d_pos[2].start
  /\ Wave.m_pos[2].end > Wave.m_pos[2].start
  /\ \E k \in 1..Len(m_wf) : m_wf[k].offset > 0 /\ k > Wave.m_pos[2].start

\* C32: across one align() call the score starts at 0 and grows by exactly
\* one per iteration of the loop: the call enters the loop at score 0, every
\* statement of a wave leaves the score alone, the end of a wave adds one, and
\* a wave starts on a slot of the ring in which nothing of its score is written
\* yet, so that no score is skipped and none is computed twice.
C32_ScoreCountsIterations ==
  [][/\ (pc \in {"idle", "returned"} /\ pc' = "loop") => score' = 0
     /\ (pc = "loop" /\ pc' = "expanded") =>
          /\ score' = score
          /\ Wave.i_pos = <<>> /\ Wave.d_pos = <<>> /\ Wave.m_pos = <<>>
     /\ (pc = "expanded" /\ pc' = "wave") => score' = score
     /\ (pc = "wave" /\ pc' = "wave") => score' = score
     /\ (pc = "wave" /\ pc' = "loop") => score' = score + 1]_vars

\* a second alignment of an MSA aligner has reached score 3
C32_Witness == pc = "loop" /\ seq_ID >= 1 /\ score >= 3

\* C33: at every point of an alignment, and after any activations and
\* resets, vertex_to_idx[v] = i exactly when active_vertices[i].vertex_id = v:
\* every active vertex has an entry, every entry other than -1 names a slot of
\* the active list, no vertex is in the list twice, and activating a vertex
\* that is active changes nothing.
C33_VertexIndexBijection ==
  /\ \A i \in 0..(Len(active_vertices) - 1) :
       At(active_vertices, i).vertex_id \in 0..(Len(vertex_to_idx) - 1)
  /\ \A v \in 0..(Len(vertex_to_idx) - 1) :
       At(vertex_to_idx, v) \in -1..(Len(active_vertices) - 1)
  /\ \A v \in 0..(Len(vertex_to_idx) - 1), i \in 0..(Len(active_vertices) - 1) :
       At(vertex_to_idx, v) = i <=> At(active_vertices, i).vertex_id = v
  /\ \A i, j \in 0..(Len(active_vertices) - 1) :
       At(active_vertices, i).vertex_id = At(active_vertices, j).vertex_id => i = j
  /\ \A i \in 0..(Len(active_vertices) - 1) :
       activate_vertex(Self, At(active_vertices, i).vertex_id) = Self

\* a later alignment of an MSA aligner, after the reset of new_alignment, in
\* which three vertices are active in an order other than that of their ids
\* and a vertex of the graph is not active
C33_Witness ==
  /\ seq_ID >= 1
  /\ pc = "wave"
  /\ Len(active_vertices) >= 3
  /\ \E i \in 0..(Len(active_vertices) - 2) :
       At(active_vertices, i).vertex_id > At(active_vertices, i + 1).vertex_id
  /\ \E v \in 0..(Len(vertex_to_idx) - 1) : At(vertex_to_idx, v) = -1

\* is diagonal d inside an invalid interval of M of vertex w
InvalidInM(w, d) ==
  /\ w < Len(vertex_to_idx)
  /\ At(vertex_to_idx, w) # -1
  /\ \E x \in {At(active_vertices, At(vertex_to_idx, w)).m_invalid[l] :
                 l \in 1..Len(At(active_vertices, At(vertex_to_idx, w)).m_invalid)} :
       x.start_d <= d /\ d <= x.end_d

\* the M-jump positions of vertex w in the slot of the score, in list av
JumpsInto(av, v2i, w) ==
  IF w < Len(v2i) /\ At(v2i, w) # -1
  THEN At(av, At(v2i, w)).m_jumps_positions[(score % n_scores(penalties)) + 1]
  ELSE <<>>

\* C34: a round of store_M_jump that takes the out-edge (v -> w, overlap) for
\* a cell that left v with query offset o appends to the M-jumps buffer a cell
\* of w with offset o and diag = -o + overlap, which is column overlap of w,
\* if and only if that diagonal is not invalid in M of w, and then appends
\* the buffer index of the cell to w's jump positions of slot score mod
\* n_scores; otherwise the buffer and the positions stay as they are.
C34_MJumpCell ==
  [][(/\ pc = "chain"
      /\ chain.stack # <<>>
      /\ Len(chain'.stack) = Len(chain.stack)
      /\ chain'.stack[Len(chain.stack)].l = chain.stack[Len(chain.stack)].l + 1) =>
       LET top == chain.stack[Len(chain.stack)]
           e == At(graph, top.v).out_edges[top.l]
           w == e.to_vertex
           o == top.new_cell.offset
           d == -o + e.overlap
       IN IF InvalidInM(w, d)
          THEN /\ m_jumps_wf' = m_jumps_wf
               /\ JumpsInto(active_vertices', vertex_to_idx', w)
                    = JumpsInto(active_vertices, vertex_to_idx, w)
          ELSE /\ Len(m_jumps_wf') = Len(m_jumps_wf) + 1
               /\ SubSeq(m_jumps_wf', 1, Len(m_jumps_wf)) = m_jumps_wf
               /\ m_jumps_wf'[Len(m_jumps_wf')].vertex_id = w
               /\ m_jumps_wf'[Len(m_jumps_wf')].offset = o
               /\ m_jumps_wf'[Len(m_jumps_wf')].diag = d
               /\ m_jumps_wf'[Len(m_jumps_wf')].diag + m_jumps_wf'[Len(m_jumps_wf')].offset
                    = e.overlap
               /\ JumpsInto(active_vertices', vertex_to_idx', w)
                    = Append(JumpsInto(active_vertices, vertex_to_idx, w),
                             Len(m_jumps_wf))]_vars

\* a jump over an edge with an overlap was stored from a cell with a
\* positive offset
C34_Witness ==
  /\ pc = "chained"
  /\ At(graph, 0).out_edges[1].overlap > 0
  /\ \E k \in 1..Len(m_jumps_wf) :
       /\ m_jumps_wf[k].prev_pos >= 0
       /\ m_jumps_wf[k].vertex_id = 1
       /\ m_jumps_wf[k].offset > 0
       /\ m_jumps_wf[k].diag = -m_jumps_wf[k].offset + 1

\* is diagonal d inside an invalid interval of I of vertex w
InvalidInI(w, d) ==
  /\ w < Len(vertex_to_idx)
  /\ At(vertex_to_idx, w) # -1
  /\ \E x \in {At(active_vertices, At(vertex_to_idx, w)).i_invalid[l] :
                 l \in 1..Len(At(active_vertices, At(vertex_to_idx, w)).i_invalid)} :
       x.start_d <= d /\ d <= x.end_d

\* C35: an I-jump that arrives at a vertex w with an empty label goes on, at
\* the same score, to the successors of w: for every I-jumps cell of the
\* score in such a w and every out-edge (w -> x, overlap), the I-jumps of the
\* score hold a cell of x with the same offset and diag = -offset + overlap,
\* unless that diagonal is invalid in I of x.
C35_IJumpThroughEmptyVertices ==
  pc \in {"wave", "loop"} =>
    \A k \in 1..Len(Wave.i_jumps_wf) :
      LET c == Wave.i_jumps_wf[k]
      IN At(graph, c.vertex_id).value = <<>> =>
           \A l \in 1..Len(At(graph, c.vertex_id).out_edges) :
             LET e == At(graph, c.vertex_id).out_edges[l]
             IN \/ InvalidInI(e.to_vertex, -c.offset + e.overlap)
                \/ \E k2 \in 1..Len(Wave.i_jumps_wf) :
                     /\ Wave.i_jumps_wf[k2].vertex_id = e.to_vertex
                     /\ Wave.i_jumps_wf[k2].offset = c.offset
                     /\ Wave.i_jumps_wf[k2].diag = -c.offset + e.overlap

\* the three lists of invalid intervals of the active slot i of the list av
Invalids(av, i) == <<av[i].m_invalid, av[i].i_invalid, av[i].d_invalid>>

\* the intervals of list v that lie inside interval y
SourcesOf(v, y) ==
  {k \in 1..Len(v) : y.start_d <= v[k].start_d /\ v[k].end_d <= y.end_d}

\* C36: an invalid interval with rem_up = r >= 1 that compact() does not
\* merge grows its end_d by one at the r-th expand() after that and then by
\* one every gape calls, and the same for start_d with rem_down: expand()
\* counts rem_up down by one and leaves end_d alone until rem_up is 1, at
\* which call end_d grows by one and rem_up is set to gape; compact() hands
\* on unchanged an interval it merges with no other; and no step of an
\* alignment makes an interval smaller.
C36_IntervalGrowth ==
  [][(pc \in {"loop", "expanded", "wave"} /\ pc' \in {"loop", "expanded", "wave"}) =>
       \A i \in 1..Len(active_vertices), t \in 1..3 :
         LET old == Invalids(active_vertices, i)[t]
             new == Invalids(active_vertices', i)[t]
         IN /\ (pc = "loop" /\ pc' = "expanded") =>
                 \A k \in 1..Len(old) :
                   /\ old[k].rem_up >= 1 =>
                        /\ new[k].end_d = old[k].end_d + (IF old[k].rem_up = 1 THEN 1 ELSE 0)
                        /\ new[k].rem_up = IF old[k].rem_up = 1 THEN penalties.gape
                                           ELSE old[k].rem_up - 1
                   /\ old[k].rem_down >= 1 =>
                        /\ new[k].start_d
                             = old[k].start_d - (IF old[k].rem_down = 1 THEN 1 ELSE 0)
                        /\ new[k].rem_down = IF old[k].rem_down = 1 THEN penalties.gape
                                             ELSE old[k].rem_down - 1
            /\ (pc = "expanded" /\ pc' = "wave") =>
                 \A k \in 1..Len(old) :
                   (\A y \in {new[j] : j \in 1..Len(new)} :
                      k \in SourcesOf(old, y) => SourcesOf(old, y) = {k})
                     => \E j \in 1..Len(new) : new[j] = old[k]
            /\ \A k \in 1..Len(old) :
                 \E j \in 1..Len(new) :
                   /\ new[j].start_d <= old[k].start_d
                   /\ old[k].end_d <= new[j].end_d]_vars

\* with a gap extension of 2, an interval that stands alone in its list has
\* grown upwards more than once and is waiting for its next growth
C36_Witness ==
  /\ pc = "expanded"
  /\ penalties.gape = 2
  /\ \E i \in 1..Len(active_vertices) :
       /\ Len(active_vertices[i].m_invalid) = 1
       /\ active_vertices[i].m_invalid[1].end_d >= active_vertices[i].m_invalid[1].start_d + 3
       /\ active_vertices[i].m_invalid[1].rem_up = 1

\* ------------------------------------------------------------- invalid intervals
\* The invalid lists of the start vertex under the calls the waves make on
\* them: invalidations of a jumping diagonal while a score is computed, then
\* expand() and compact() at the start of the next score.
MaxDiag == 2

MaxIntervals == 3

MaxExpands == 2

\* new_alignment() activates the start vertex
IntervalBegin ==
  /\ pc = "idle"
  /\ Assign(activate_vertex(Self, 0))
  /\ pc' = "loop"
  /\ UNCHANGED <<penalties, sweep, wave, call, graph, poa_graph, is_msa, seq_ID, alignment,
                 start_node, start_offset, update, chain, present, penalty_vars>>

\* store_M_jump or store_I_jump invalidates a diagonal of the vertex
IntervalInvalidate ==
  /\ pc \in {"loop", "compacted"}
  /\ Len(active_vertices[1].m_invalid) < MaxIntervals
  /\ \E d \in -MaxDiag..MaxDiag, from_M \in BOOLEAN :
       Assign(IF from_M THEN invalidate_m_jump(Self, 0, d)
              ELSE invalidate_i_jump(Self, 0, d))
  /\ pc' = "loop"
  /\ UNCHANGED <<penalties, sweep, wave, call, graph, poa_graph, is_msa, seq_ID, alignment,
                 start_node, start_offset, update, chain, present, penalty_vars>>

\* the next score starts: expand()
IntervalExpand ==
  /\ pc \in {"loop", "compacted"}
  /\ score < MaxExpands
  /\ Assign([expand(Self) EXCEPT !.score = @ + 1])
  /\ pc' = "grown"
  /\ UNCHANGED <<penalties, sweep, wave, call, graph, poa_graph, is_msa, seq_ID, alignment,
                 start_node, start_offset, update, chain, present, penalty_vars>>

\* compact()
IntervalCompact ==
  /\ pc = "grown"
  /\ Assign(compact(Self))
  /\ pc' = "compacted"
  /\ UNCHANGED <<penalties, sweep, wave, call, graph, poa_graph, is_msa, seq_ID, alignment,
                 start_node, start_offset, update, chain, present, penalty_vars>>

IntervalNext ==
  \/ IntervalBegin
  \/ IntervalInvalidate
  \/ IntervalExpand
  \/ IntervalCompact

IntervalInit == InitFrom(PenaltySet \cup SlowGapPenaltySet, {}, SingleVertexGraphs)

IntervalSpec == IntervalInit /\ [][IntervalNext]_vars

\* the diagonals of an invalid interval
Diagonals(x) ==
  {d \in -(MaxDiag + MaxExpands + 2)..(MaxDiag + MaxExpands + 2) :
     x.start_d <= d /\ d <= x.end_d}

\* C37: after compact() the invalid intervals of each matrix of each active
\* vertex are pairwise disjoint, whatever invalidations and expansions made
\* the list, the empty intervals with end_d = start_d - 1 that an
\* invalidation creates included: no diagonal is in two of them, they stand
\* in the order of their start_d, and every diagonal of the alignment's
\* range is inside the range the definition of an interval's diagonals covers.
C37_CompactedDisjoint ==
  pc = "compacted" =>
    \A i \in 1..Len(active_vertices), t \in 1..3 :
      LET v == Invalids(active_vertices, i)[t]
      IN /\ \A j, k \in 1..Len(v) : j < k =>
              /\ Diagonals(v[j]) \cap Diagonals(v[k]) = {}
              /\ v[j].start_d < v[k].start_d
         /\ \A k \in 1..Len(v) :
              /\ v[k].start_d >= -(MaxDiag + MaxExpands + 2)
              /\ v[k].end_d <= MaxDiag + MaxExpands + 2

\* compact() has left a list of two intervals with diagonals, and a list
\* that holds an interval with diagonals next to an empty one
C37_Witness ==
  /\ pc = "compacted"
  /\ \E i \in 1..Len(active_vertices), t \in 1..3 :
       LET v == Invalids(active_vertices, i)[t]
       IN \E j, k \in 1..Len(v) :
            j # k /\ Diagonals(v[j]) # {} /\ Diagonals(v[k]) # {}
  /\ \E i \in 1..Len(active_vertices), t \in 1..3 :
       LET v == Invalids(active_vertices, i)[t]
       IN \E j, k \in 1..Len(v) :
            /\ Diagonals(v[j]) # {}
            /\ v[k].end_d = v[k].start_d - 1

RECURSIVE MinOver(_)
MinOver(S) ==
  IF Cardinality(S) = 1 THEN CHOOSE x \in S : TRUE
  ELSE LET x == CHOOSE y \in S : TRUE
       IN Min(x, MinOver(S \ {x}))

\* C38: when compact() merges intervals, the merged interval's rem_up is the
\* minimum over its sources of the source's rem_up plus (merged end_d - its
\* end_d) * gape, and its rem_down the minimum of the source's rem_down plus
\* (its start_d - merged start_d) * gape, so that the merged interval reaches
\* a diagonal at the score at which the first of its sources would have.
C38_MergedCounters ==
  [][(pc = "expanded" /\ pc' = "wave") =>
       \A i \in 1..Len(active_vertices), t \in 1..3 :
         LET old == Invalids(active_vertices, i)[t]
             new == Invalids(active_vertices', i)[t]
         IN \A j \in 1..Len(new) :
              LET src == SourcesOf(old, new[j])
              IN /\ src # {}
                 /\ new[j].rem_up =
                      MinOver({old[k].rem_up
                                 + (new[j].end_d - old[k].end_d) * penalties.gape :
                               k \in src})
                 /\ new[j].rem_down =
                      MinOver({old[k].rem_down
                                 + (old[k].start_d - new[j].start_d) * penalties.gape :
                               k \in src})]_vars

\* ------------------------------------------------------------- dijkstra
\* graphs with two ways of different length from vertex 0 to vertex 3, the
\* longer one over the first out-edge and over the second, and a graph with
\* a cycle on the way
DijkstraGraphs ==
  { << Vertex(<<>>, <<Edge(0, 1), Edge(0, 2)>>, <<"A">>, 0),
       Vertex(<<Edge(0, 1)>>, <<Edge(1, 3)>>, <<"A", "C">>, 0),
       Vertex(<<Edge(0, 2)>>, <<Edge(2, 3)>>, <<"C">>, 0),
       Vertex(<<Edge(1, 3), Edge(2, 3)>>, <<>>, <<"A", "A">>, 0) >>,
    << Vertex(<<>>, <<Edge(0, 1), Edge(0, 2)>>, <<"A">>, 0),
       Vertex(<<Edge(0, 1)>>, <<Edge(1, 3)>>, <<"C">>, 0),
       Vertex(<<Edge(0, 2)>>, <<Edge(2, 3)>>, <<"A", "C">>, 0),
       Vertex(<<Edge(1, 3), Edge(2, 3)>>, <<>>, <<"A", "A">>, 0) >>,
    << Vertex(<<Edge(2, 0)>>, <<Edge(0, 1)>>, <<"A", "C">>, 0),
       Vertex(<<Edge(0, 1)>>, <<Edge(1, 2), Edge(1, 3)>>, <<"C">>, 0),
       Vertex(<<Edge(1, 2)>>, <<Edge(2, 0)>>, <<"A">>, 0),
       Vertex(<<Edge(1, 3)>>, <<>>, <<"C", "C">>, 0) >> }

\* the vertices a path of at most n edges leads to from the set S
RECURSIVE ReachableFrom(_, _, _)
ReachableFrom(G, S, n) ==
  IF n = 0 THEN S
  ELSE ReachableFrom(G,
                     S \cup UNION {{At(G, u).out_edges[l].to_vertex :
                                      l \in 1..Len(At(G, u).out_edges)} : u \in S},
                     n - 1)

\* backtrace calls dijkstra(source, sink, offset_source, offset_sink) for an
\* insertion that leaves source at column offset_source and ends in sink,
\* which a path leads to; the I operations and the path go to the CIGAR
DijkstraCall ==
  /\ pc = "idle"
  /\ \E source \in 0..(Len(graph) - 1) :
       \E sink \in {v \in 0..(Len(graph) - 1) :
                      /\ v # source
                      /\ \E u \in 0..(Len(graph) - 1) :
                           \E l \in 1..Len(At(graph, u).out_edges) :
                             /\ At(graph, u).out_edges[l].to_vertex = v
                             /\ u \in ReachableFrom(graph, {source}, Len(graph))} :
         \E offset_source \in 0..Len(At(graph, source).value),
            offset_sink \in 0..Len(At(graph, sink).value) :
           /\ call' = [source |-> source, sink |-> sink,
                       offset_source |-> offset_source, offset_sink |-> offset_sink]
           /\ alignment' = [alignment EXCEPT !.cigar =
                              dijkstra(Self, source, sink, offset_source, offset_sink).cigar]
  /\ pc' = "dijkstra"
  /\ UNCHANGED <<penalties, sweep, wave, graph, poa_graph, is_msa, seq_ID, seq, score, end,
                 start_pos, m_wf, m_jumps_wf, scope, active_vertices, vertex_to_idx,
                 scratchpad, start_node, start_offset, update, chain, present,
                 penalty_vars>>

DijkstraNext == DijkstraCall

DijkstraInit == InitFrom(PenaltySet, {}, DijkstraGraphs)

DijkstraSpec == DijkstraInit /\ [][DijkstraNext]_vars

\* the sums of |label(u)| - overlap(u -> u') over the paths of at most n
\* edges from source to v
RECURSIVE PathWeights(_, _, _, _)
PathWeights(G, source, v, n) ==
  IF n = 0 THEN (IF v = source THEN {0} ELSE {})
  ELSE PathWeights(G, source, v, n - 1)
         \cup UNION {{w + Len(At(G, e.from_vertex).value) - e.overlap :
                        w \in PathWeights(G, source, e.from_vertex, n - 1)} :
                     e \in {At(G, v).in_edges[l] : l \in 1..Len(At(G, v).in_edges)}}

\* C39: the distance with which dijkstra reaches the sink is the least sum
\* of the weights |label(u)| - overlap(u -> u') over the paths from source to
\* sink, counted from column offset_source of the source to column
\* offset_sink of the sink, and it is the number of I operations the call
\* adds to the CIGAR.
C39_DijkstraShortest ==
  pc = "dijkstra" =>
    Cardinality({k \in 1..Len(alignment.cigar.edit_op) : alignment.cigar.edit_op[k] = "I"})
      = Max(0, MinOver(PathWeights(graph, call.source, call.sink, Len(graph)))
                 - call.offset_source + call.offset_sink)

\* ------------------------------------------------------------- scratchpad capacity
\* The constructor sizes the list of touched diagonals with
\* _diags.realloc(_wf.size()): one slot per diagonal of min_diag .. max_diag.
PadSlots(sp) == sp.max_diag + (-sp.min_diag) + 1

\* the first scratchpad of the aligner covers -FirstPadDiag .. FirstPadDiag;
\* the constructor's 1024 is brought down to the lengths of the queries and
\* labels drawn here, so that new_alignment meets a scratchpad that is too
\* small and builds the one of -|query| .. longest label
FirstPadDiag == 0

\* align(seq) is called: new_alignment keeps or replaces the scratchpad, and
\* process_vertex turns to the sweep of a vertex
PadBegin ==
  /\ pc = "idle"
  /\ seq' \in {q \in SeqsUpTo(MaxLen) : \A k \in 1..Len(q) : q[k] = "A"}
  /\ \E uninit \in UninitCell :
       scratchpad' = new_alignment([Self EXCEPT !.seq = seq'], 0, uninit).scratchpad
  /\ \E v \in 0..(Len(graph) - 1) : sweep' = [v |-> v, cands |-> <<>>, proposed |-> 0]
  /\ pc' = "sweep"
  /\ UNCHANGED <<penalties, wave, call, graph, poa_graph, is_msa, seq_ID, score, end, start_pos,
                 m_wf, m_jumps_wf, scope, active_vertices, vertex_to_idx,
                 alignment, start_node, start_offset, update, chain,
                 present, penalty_vars>>

PadNext == PadBegin \/ SparsifyM \/ SparsifyIndel \/ SparsifyJumps \/ SweepReset

PadInit == InitWith(PenaltySet, {<<"A">>}, {}, ScratchPad(-FirstPadDiag, FirstPadDiag))

PadSpec == PadInit /\ [][PadNext]_vars

\* the diagonals the scratchpad counts as touched
Touched(sp) == {sp.active_diags[k] : k \in 1..Len(sp.active_diags)}

\* the length of the touched list when the sparsify pass of this step calls
\* access_alloc for the cell it proposes as number i of the sweep
TouchedAtCall(i) ==
  LET earlier == {j \in (Len(sweep.cands) + 1)..(i - 1) : InBounds(sweep'.cands[j])}
  IN Len(scratchpad.active_diags)
       + Cardinality({sweep'.cands[j].diag : j \in earlier} \ Touched(scratchpad))

\* C40: at every call of access_alloc the list of touched diagonals is
\* shorter than the scratchpad has slots, so that the write of the diagonal at
\* index size falls inside the capacity of the list.
C40_WriteInsideCapacity ==
  [][pc = "sweep" =>
       \A i \in (Len(sweep.cands) + 1)..Len(sweep'.cands) :
          InBounds(sweep'.cands[i]) => TouchedAtCall(i) < PadSlots(scratchpad)]_vars

====
